---- MODULE Spec2Model ----
(***************************************************************************)
(* A model of scad_models.py, the generator of the 2D feature geometry of  *)
(* the Pololu Romi base (class Romi).                                      *)
(*                                                                         *)
(* Numbers.  The program computes in floating point millimetres.  The      *)
(* model computes in fixed point:                                          *)
(*   - a .dxf measurement (inches with 6 decimals) is an integer number of *)
(*     micro-inches;                                                       *)
(*   - a length or coordinate in millimetres is an integer number of       *)
(*     nanometres (1e-6 mm), rounded to nearest;                           *)
(*   - an angle in radians is an integer number of 1e-8 rad;               *)
(*   - a sine, cosine or ratio is an integer number of 1e-9.               *)
(* Every intermediate value stays below 2^31; products are formed in       *)
(* base-1000 limbs (Wide numbers).                                         *)
(***************************************************************************)
EXTENDS Integers, Sequences, FiniteSets, TLC

----------------------------------------------------------------------------
(* Fixed point arithmetic                                                  *)

Abs(a) == IF a < 0 THEN -a ELSE a

Sgn(a) == IF a < 0 THEN -1 ELSE 1

\* a / n rounded to nearest (half away from zero), n > 0
RoundDiv(a, n) == IF a >= 0 THEN (a + n \div 2) \div n
                            ELSE -(((-a) + n \div 2) \div n)

\* a / 2.0 for a sum of two coordinates
Half(a) == RoundDiv(a, 2)

\* The three base-1000 limbs of 0 <= n < 2^31 (the top limb is below 2148).
Limbs(n) == <<n % 1000, (n \div 1000) % 1000, n \div 1000000>>

\* Carry propagation over six limb sums, from limb i on; the top limb
\* absorbs the rest.
RECURSIVE WideNormFrom(_, _, _)
WideNormFrom(c, i, carry) ==
    IF i = 6 THEN <<c[6] + carry>>
    ELSE <<(c[i] + carry) % 1000>>
             \o WideNormFrom(c, i + 1, (c[i] + carry) \div 1000)

WideNorm(c) == WideNormFrom(c, 1, 0)

\* the product of two numbers given by their limbs
WideMulLimbs(x, y) ==
    WideNorm(<<x[1] * y[1],
               x[1] * y[2] + x[2] * y[1],
               x[1] * y[3] + x[2] * y[2] + x[3] * y[1],
               x[2] * y[3] + x[3] * y[2],
               x[3] * y[3],
               0>>)

\* a * b for 0 <= a, b < 2^31
WideMul(a, b) == WideMulLimbs(Limbs(a), Limbs(b))

WideAdd(u, v) == WideNorm([i \in 1..6 |-> u[i] + v[i]])

\* n, and n * 10^9, as Wide numbers
WideOf(n) == WideNorm(Limbs(n) \o <<0, 0, 0>>)

WideShift9(n) == WideNorm(<<0, 0, 0>> \o Limbs(n))

RECURSIVE WideLeqFrom(_, _, _)
WideLeqFrom(u, v, i) ==
    IF i = 0 THEN TRUE
    ELSE IF u[i] # v[i] THEN u[i] < v[i]
    ELSE WideLeqFrom(u, v, i - 1)

WideLeq(u, v) == WideLeqFrom(u, v, 6)

\* a * b / 10^9 rounded to nearest, for a, b of either sign
WideHigh(w) == w[4] + 1000 * w[5] + 1000000 * w[6]

MulScaled(a, b) ==
    Sgn(a) * Sgn(b)
        * WideHigh(WideAdd(WideMul(Abs(a), Abs(b)), <<0, 0, 500, 0, 0, 0>>))

\* The largest q in lo..hi-1 with q * b <= n (n Wide), given lo * b <= n < hi * b
RECURSIVE WideDivBetween(_, _, _, _)
WideDivBetween(n, b, lo, hi) ==
    IF hi - lo <= 1 THEN lo
    ELSE LET mid == lo + (hi - lo) \div 2
         IN  IF WideLeq(WideMul(mid, b), n) THEN WideDivBetween(n, b, mid, hi)
                                            ELSE WideDivBetween(n, b, lo, mid)

\* a * 10^9 / b rounded to nearest, for 0 <= a <= b, b > 0
DivScaled(a, b) ==
    WideDivBetween(WideAdd(WideShift9(a), WideOf(b \div 2)), b, 0, 10^9 + 1)

\* The largest r in lo..hi-1 with r * r <= n (n Wide)
RECURSIVE WideSqrtBetween(_, _, _)
WideSqrtBetween(n, lo, hi) ==
    IF hi - lo <= 1 THEN lo
    ELSE LET mid == lo + (hi - lo) \div 2
         IN  IF WideLeq(WideMul(mid, mid), n) THEN WideSqrtBetween(n, mid, hi)
                                              ELSE WideSqrtBetween(n, lo, mid)

\* sqrt(n) rounded to nearest
WideSqrtRound(n, r) ==
    IF WideLeq(WideAdd(WideMul(r, r), WideOf(r + 1)), n) THEN r + 1 ELSE r

WideSqrt(n) == WideSqrtRound(n, WideSqrtBetween(n, 0, 2 * 10^9))

\* sqrt(dx*dx + dy*dy), math.sqrt over two squares
Hypot(dx, dy) ==
    WideSqrt(WideAdd(WideMul(Abs(dx), Abs(dx)), WideMul(Abs(dy), Abs(dy))))

\* sqrt(a*a - b*b) for 0 <= b <= a: the r with r*r + b*b nearest a*a
RECURSIVE CathetusBetween(_, _, _, _)
CathetusBetween(a, b, lo, hi) ==
    IF hi - lo <= 1 THEN lo
    ELSE LET mid == lo + (hi - lo) \div 2
         IN  IF WideLeq(WideAdd(WideMul(mid, mid), WideMul(b, b)), WideMul(a, a))
             THEN CathetusBetween(a, b, mid, hi)
             ELSE CathetusBetween(a, b, lo, mid)

----------------------------------------------------------------------------
(* math.sin, math.cos, math.atan2, math.asin, math.sqrt                    *)

Pi8 == 314159265          \* pi in 1e-8 rad

HalfPi9 == 1570796327     \* pi/2 in 1e-9 rad

QuarterPi9 == 785398163   \* pi/4 in 1e-9 rad

\* sum over k of (-1)^k x^(2k+1)/(2k+1)!, from the term of index k on
RECURSIVE SinSeries(_, _, _)
SinSeries(term, x2, k) ==
    IF term = 0 THEN 0
    ELSE term + SinSeries(-RoundDiv(MulScaled(term, x2), (2*k + 2) * (2*k + 3)),
                          x2, k + 1)

\* sum over k of (-1)^k x^(2k)/(2k)!, from the term of index k on
RECURSIVE CosSeries(_, _, _)
CosSeries(term, x2, k) ==
    IF term = 0 THEN 0
    ELSE term + CosSeries(-RoundDiv(MulScaled(term, x2), (2*k + 1) * (2*k + 2)),
                          x2, k + 1)

\* sin and cos of x (1e-9 rad), 0 <= x <= pi/4
SinSmall(x) == SinSeries(x, MulScaled(x, x), 0)

CosSmall(x) == CosSeries(10^9, MulScaled(x, x), 0)

\* sin and cos of x (1e-9 rad), 0 <= x <= pi/2
SinQuadrant(x) == IF x <= QuarterPi9 THEN SinSmall(x) ELSE CosSmall(HalfPi9 - x)

CosQuadrant(x) == IF x <= QuarterPi9 THEN CosSmall(x) ELSE SinSmall(HalfPi9 - x)

\* a (1e-8 rad) brought into [-pi, pi)
AngleWrap(a) == ((a + Pi8) % (2 * Pi8)) - Pi8

\* the angle of [0, pi/2] (1e-9 rad) with the same sine as |a|, a in [-pi, pi)
AngleFold(a) == LET m == Abs(a)
                IN  IF m <= Pi8 \div 2 THEN 10 * m ELSE 10 * (Pi8 - m)

\* math.sin(a), math.cos(a): a in 1e-8 rad, the result in 1e-9
SinWrapped(r) == Sgn(r) * SinQuadrant(AngleFold(r))

Sin(a) == SinWrapped(AngleWrap(a))

CosSign(r) == IF Abs(r) <= Pi8 \div 2 THEN 1 ELSE -1

CosWrapped(r) == CosSign(r) * CosQuadrant(AngleFold(r))

Cos(a) == CosWrapped(AngleWrap(a))

\* sum over k of (-1)^k t^(2k+1)/(2k+1), from the power of index k on
RECURSIVE AtanSeries(_, _, _)
AtanSeries(power, t2, k) ==
    IF power = 0 THEN 0
    ELSE RoundDiv(power, 2*k + 1) - AtanSeries(MulScaled(power, t2), t2, k + 1)

\* atan(t) = pi/4 - atan(u) for u = (1 - t)/(1 + t)
AtanReduced(u) == QuarterPi9 - AtanSeries(u, MulScaled(u, u), 0)

\* atan(t) in 1e-9 rad for a ratio 0 <= t <= 1 (1e-9)
Atan(t) ==
    IF t <= 414213562 THEN AtanSeries(t, MulScaled(t, t), 0)
    ELSE AtanReduced(DivScaled(10^9 - t, 10^9 + t))

Min(a, b) == IF a <= b THEN a ELSE b

Max(a, b) == IF a <= b THEN b ELSE a

\* the angle of the first octant pair (1e-8 rad) from the atan of the smaller
\* over the larger of |y|, |x|
AtanFlip(direct, atan) ==
    IF direct THEN RoundDiv(atan, 10) ELSE RoundDiv(HalfPi9 - atan, 10)

\* atan2(ay, ax) for ay, ax >= 0
Atan2First(ay, ax) ==
    IF ax = 0 /\ ay = 0 THEN 0
    ELSE AtanFlip(ay <= ax, Atan(DivScaled(Min(ay, ax), Max(ay, ax))))

Atan2Signed(y, x, first) ==
    IF x >= 0 THEN Sgn(y) * first ELSE Sgn(y) * (Pi8 - first)

\* math.atan2(y, x) in 1e-8 rad
Atan2(y, x) == Atan2Signed(y, x, Atan2First(Abs(y), Abs(x)))

\* math.asin(num / den) in 1e-8 rad, for |num| <= den
Asin(num, den) ==
    Atan2(num, CathetusBetween(den, Abs(num), 0, den + 1))

----------------------------------------------------------------------------
(* scad.py: P2D, Circle, Square, SimplePolygon, Polygon                    *)

P2D(px, py) == [x |-> px, y |-> py]

Origin == P2D(0, 0)

\* P2D.__add__, P2D.__sub__, P2D.__truediv__, P2D.__rmul__
P2DAdd(p, q) == P2D(p.x + q.x, p.y + q.y)

P2DSub(p, q) == P2D(p.x - q.x, p.y - q.y)

P2DDiv(p, n) == P2D(RoundDiv(p.x, n), RoundDiv(p.y, n))

P2DMul(n, p) == P2D(n * p.x, n * p.y)

\* P2D.distance
Distance(p, q) == Hypot(p.x - q.x, p.y - q.y)

\* A display name is the sequence of its blank-separated words.
\* str.replace(old, new) on a name whose markers are whole words
NameReplace(name, old, new) ==
    [i \in 1..Len(name) |-> IF name[i] = old THEN new ELSE name[i]]

NameHas(name, word) == \E i \in 1..Len(name) : name[i] = word

\* str(n) for the indices the generators format into names
Digit(n) == <<"0", "1", "2", "3", "4", "5", "6", "7", "8", "9">>[n + 1]

Str(n) == LET m == Abs(n)
              digits == IF m < 10 THEN Digit(m)
                        ELSE Digit(m \div 10) \o Digit(m % 10)
          IN  IF n < 0 THEN "-" \o digits ELSE digits

\* Circle(name, diameter, points_count, center)
Circle(name, diameter, points_count, center) ==
    [kind |-> "Circle", name |-> name, diameter |-> diameter,
     points_count |-> points_count, center |-> center]

\* Square(name, dx, dy, center, rotate, corner_radius, corner_count)
Square(name, dx, dy, center, rotate, corner_radius, corner_count) ==
    [kind |-> "Square", name |-> name, dx |-> dx, dy |-> dy, center |-> center,
     rotate |-> rotate, corner_radius |-> corner_radius,
     corner_count |-> corner_count]

\* Square(name, dx, dy, center): rotate, corner_radius and corner_count default
SquarePlain(name, dx, dy, center) == Square(name, dx, dy, center, 0, 0, 3)

\* Circle.copy(name, center=center)
CircleCopy(circle, name, center) ==
    [circle EXCEPT !.name = name, !.center = center]

\* SimplePolygon.y_mirror(replace, substitute): reflection across the Y axis
YMirror(f, old, new) ==
    IF f.kind = "Square"
    THEN [f EXCEPT !.name = NameReplace(f.name, old, new),
                   !.center = P2D(-f.center.x, f.center.y),
                   !.rotate = -f.rotate]
    ELSE [f EXCEPT !.name = NameReplace(f.name, old, new),
                   !.center = P2D(-f.center.x, f.center.y)]

\* SimplePolygon.x_mirror(replace, substitute): reflection across the X axis
XMirror(f, old, new) ==
    IF f.kind = "Square"
    THEN [f EXCEPT !.name = NameReplace(f.name, old, new),
                   !.center = P2D(f.center.x, -f.center.y),
                   !.rotate = -f.rotate]
    ELSE [f EXCEPT !.name = NameReplace(f.name, old, new),
                   !.center = P2D(f.center.x, -f.center.y)]

\* SimplePolygon(name): no points, not locked
SimplePolygon(name) ==
    [kind |-> "SimplePolygon", name |-> name, points |-> << >>, locked |-> FALSE]

\* SimplePolygon.point_append
PointAppend(polygon, point) ==
    [polygon EXCEPT !.points = Append(polygon.points, point)]

\* AngleAt dividing the span by the number of positions, not of steps
AngleAtPositions(span, steps, index) ==
    index * (span \div (steps + 1)) +
        RoundDiv(index * (span % (steps + 1)), steps + 1)

\* index * (span / steps): float(index) * delta_angle, the quotient not rounded
\* before it is multiplied
AngleAt(span, steps, index) ==
    index * (span \div steps) + RoundDiv(index * (span % steps), steps)

\* SimplePolygon.arc_append(center, radius, start_angle, end_angle, points_count)
ArcPoint(center, radius, angle) ==
    P2D(center.x + MulScaled(radius, Cos(angle)),
        center.y + MulScaled(radius, Sin(angle)))

ArcAppend(polygon, center, radius, start_angle, end_angle, points_count) ==
    [polygon EXCEPT !.points = polygon.points \o
        [i \in 1..points_count |->
            ArcPoint(center, radius,
                     start_angle + AngleAt(end_angle - start_angle,
                                           points_count - 1, i - 1))]]

\* SimplePolygon.lock
Lock(polygon) == [polygon EXCEPT !.locked = TRUE]

\* Polygon(name, simple_polygons, lock=True)
Polygon(name, simple_polygons, lock) ==
    [kind |-> "Polygon", name |-> name, simple_polygons |-> simple_polygons,
     locked |-> lock]

----------------------------------------------------------------------------
(* Romi.__init__                                                           *)

\* inches * inches2mm: micro-inches times tenths of a millimetre per inch, in nm
InchesToMm(inches, inches2mm) == RoundDiv(inches * inches2mm, 10)

\* RomiInit taking the axle top alone for y_origin_offset
RomiInitAboveOnly ==
    LET inches2mm == 254
        y_origin_offset == InchesToMm(2967165, inches2mm)
        upper_castor_x_left == InchesToMm(-3930756, inches2mm)
        upper_castor_x_right == InchesToMm(-3805256, inches2mm)
        x_origin_offset == Half(upper_castor_x_left + upper_castor_x_right)
    IN  [debugging |-> FALSE, inches2mm |-> inches2mm,
         origin_offset |-> P2D(x_origin_offset, y_origin_offset)]

\* the attributes of a constructed Romi
RomiInit ==
    LET inches2mm == 254
        axel_y_above == InchesToMm(2967165, inches2mm)
        axel_y_below == InchesToMm(2908110, inches2mm)
        y_origin_offset == Half(axel_y_above + axel_y_below)
        upper_castor_x_left == InchesToMm(-3930756, inches2mm)
        upper_castor_x_right == InchesToMm(-3805256, inches2mm)
        x_origin_offset == Half(upper_castor_x_left + upper_castor_x_right)
    IN  [debugging |-> FALSE, inches2mm |-> inches2mm,
         origin_offset |-> P2D(x_origin_offset, y_origin_offset)]

----------------------------------------------------------------------------
(* Romi.base_outline_polygon_get, one step per statement group             *)

Diameter == 163000000         \* diameter = 163.0 mm

WheelWellDx == 125000000      \* wheel_well_dx = 125.0 mm

WheelWellDy == 72000000       \* wheel_well_dy = 72.0 mm

RadiusTolerance == 10         \* .00001 mm

\* ArcCount set one short
ArcCountShort == 21 - 1

ArcCount == 21                \* arc_count = 21

\* the frame of a call that has not started
OutlineIdle ==
    [pc |-> "idle", wheel_well_angle |-> 0, wheel_well_corner |-> Origin,
     wheel_well_radius |-> 0, radius_checked |-> {}, count_asserted |-> FALSE,
     outline_polygon |-> SimplePolygon(<<"Romi", "Base", "Exterior">>)]

OutlineCall == [OutlineIdle EXCEPT !.pc = "start"]

\* wheel_well_corner = P2D(radius * cos(angle), radius * sin(angle))
WheelWellCorner(radius, wheel_well_angle) ==
    P2D(MulScaled(radius, Cos(wheel_well_angle)),
        MulScaled(radius, Sin(wheel_well_angle)))

\* RadiusOk with the comparison inverted
RadiusOkInverted(radius, wheel_well_radius) ==
    Abs(radius - wheel_well_radius) > RadiusTolerance

\* assert abs(radius - wheel_well_radius) < .00001
RadiusOk(radius, wheel_well_radius) ==
    Abs(radius - wheel_well_radius) < RadiusTolerance

\* assert len(outline_polygon) == 2 * arc_count + 4
CountOk(outline_polygon) == Len(outline_polygon.points) = 2 * ArcCount + 4

\* radius_checked records the points whose distance from the origin the call
\* has compared with radius; count_asserted records that the count assertion ran.
OutlineStep(f) ==
    LET radius == Half(Diameter)
        half_wheel_well_dx == Half(WheelWellDx)
        half_wheel_well_dy == Half(WheelWellDy)
        upper_start_angle == f.wheel_well_angle
        upper_end_angle == Pi8 - f.wheel_well_angle
        lower_start_angle == f.wheel_well_angle + Pi8
        lower_end_angle == upper_end_angle + Pi8
    IN  CASE f.pc = "start" ->
               LET wheel_well_angle == Asin(half_wheel_well_dy, radius)
                   wheel_well_corner == WheelWellCorner(radius, wheel_well_angle)
                   wheel_well_radius == Distance(Origin, wheel_well_corner)
               IN  [f EXCEPT !.wheel_well_angle = wheel_well_angle,
                             !.wheel_well_corner = wheel_well_corner,
                             !.wheel_well_radius = wheel_well_radius,
                             !.radius_checked = {wheel_well_corner},
                             !.pc = IF RadiusOk(radius, wheel_well_radius)
                                    THEN "upper_arc" ELSE "abort"]
          [] f.pc = "upper_arc" ->
               [f EXCEPT !.outline_polygon =
                             ArcAppend(f.outline_polygon, Origin, radius,
                                       upper_start_angle, upper_end_angle, ArcCount),
                         !.pc = "left_well"]
          [] f.pc = "left_well" ->
               [f EXCEPT !.outline_polygon =
                             PointAppend(PointAppend(f.outline_polygon,
                                 P2D(-half_wheel_well_dx, half_wheel_well_dy)),
                                 P2D(-half_wheel_well_dx, -half_wheel_well_dy)),
                         !.pc = "lower_arc"]
          [] f.pc = "lower_arc" ->
               [f EXCEPT !.outline_polygon =
                             ArcAppend(f.outline_polygon, Origin, radius,
                                       lower_start_angle, lower_end_angle, ArcCount),
                         !.pc = "right_well"]
          [] f.pc = "right_well" ->
               [f EXCEPT !.outline_polygon =
                             PointAppend(PointAppend(f.outline_polygon,
                                 P2D(half_wheel_well_dx, -half_wheel_well_dy)),
                                 P2D(half_wheel_well_dx, half_wheel_well_dy)),
                         !.pc = "assert_count"]
          [] f.pc = "assert_count" ->
               [f EXCEPT !.count_asserted = TRUE,
                         !.pc = IF CountOk(f.outline_polygon) THEN "lock"
                                                             ELSE "abort"]
          [] f.pc = "lock" ->
               [f EXCEPT !.outline_polygon = Lock(f.outline_polygon),
                         !.pc = "return"]
          [] OTHER -> f

OutlineDone(f) == f.pc \in {"return", "abort"}

\* the whole call: the frame at its return or at its failed assertion
RECURSIVE OutlineRun(_)
OutlineRun(f) == IF OutlineDone(f) THEN f ELSE OutlineRun(OutlineStep(f))

BaseOutlinePolygonGet == OutlineRun(OutlineCall)

----------------------------------------------------------------------------
(* Romi.hex_pattern_get, one step per loop iteration                       *)

HexDyPitch == 7500000         \* hex_dy_pitch = 7.50 mm

PointsCount == 8              \* points_count = 8

\* sqrt(3.0), in 1e-9
Sqrt3 == WideSqrt(<<0, 0, 0, 0, 0, 3000>>)

\* half_hex_dx_pitch = hex_dy_pitch / sqrt(3.0)
HalfHexDxPitch == DivScaled(HexDyPitch, Sqrt3)

\* the measured reference slot
SlotDx(inches2mm) ==
    InchesToMm(-2346591, inches2mm) - InchesToMm(-2437146, inches2mm)

SlotDy(inches2mm) ==
    InchesToMm(1339205, inches2mm) - InchesToMm(1051803, inches2mm)

\* slot_length = slot_dy - slot_dx, from centre to centre
SlotLength(inches2mm) == SlotDy(inches2mm) - SlotDx(inches2mm)

\* slot_width = slot_dx
SlotWidth(inches2mm) == SlotDx(inches2mm)

\* str.isupper() of one character: the 1951 code points that are cased and
\* upper case in the Unicode 14.0 tables of the interpreter (the letters of
\* category Lu, the Roman numerals of Nl and the circled letters of So).  A
\* character that a string of this module cannot hold is written U+ and its
\* code point in hexadecimal.
UpperCase ==
    {"A", "B", "C", "D", "E", "F", "G", "H", "I", "J", "K", "L", "M", "N",
     "O", "P", "Q", "R", "S", "T", "U", "V", "W", "X", "Y", "Z", "À", "Á",
     "Â", "Ã", "Ä", "Å", "Æ", "Ç", "È", "É", "Ê", "Ë", "Ì", "Í", "Î", "Ï",
     "Ð", "Ñ", "Ò", "Ó", "Ô", "Õ", "Ö", "Ø", "Ù", "Ú", "Û", "Ü", "Ý", "Þ",
     "U+0100", "U+0102", "U+0104", "U+0106", "U+0108", "U+010A", "U+010C",
     "U+010E", "U+0110", "U+0112", "U+0114", "U+0116", "U+0118", "U+011A",
     "U+011C", "U+011E", "U+0120", "U+0122", "U+0124", "U+0126", "U+0128",
     "U+012A", "U+012C", "U+012E", "U+0130", "U+0132", "U+0134", "U+0136",
     "U+0139", "U+013B", "U+013D", "U+013F", "U+0141", "U+0143", "U+0145",
     "U+0147", "U+014A", "U+014C", "U+014E", "U+0150", "U+0152", "U+0154",
     "U+0156", "U+0158", "U+015A", "U+015C", "U+015E", "U+0160", "U+0162",
     "U+0164", "U+0166", "U+0168", "U+016A", "U+016C", "U+016E", "U+0170",
     "U+0172", "U+0174", "U+0176", "U+0178", "U+0179", "U+017B", "U+017D",
     "Ɓ", "Ƃ", "Ƅ", "Ɔ", "Ƈ", "Ɖ", "Ɗ", "Ƌ", "Ǝ", "Ə", "Ɛ", "Ƒ", "Ɠ", "Ɣ",
     "Ɩ", "Ɨ", "Ƙ", "Ɯ", "Ɲ", "Ɵ", "Ơ", "Ƣ", "Ƥ", "Ʀ", "Ƨ", "Ʃ", "Ƭ", "Ʈ",
     "Ư", "Ʊ", "Ʋ", "Ƴ", "Ƶ", "Ʒ", "Ƹ", "Ƽ", "Ǆ", "Ǉ", "Ǌ", "Ǎ", "Ǐ", "Ǒ",
     "Ǔ", "Ǖ", "Ǘ", "Ǚ", "Ǜ", "Ǟ", "Ǡ", "Ǣ", "Ǥ", "Ǧ", "Ǩ", "Ǫ", "Ǭ", "Ǯ",
     "Ǳ", "Ǵ", "Ƕ", "Ƿ", "Ǹ", "Ǻ", "Ǽ", "Ǿ", "U+0200", "U+0202", "U+0204",
     "U+0206", "U+0208", "U+020A", "U+020C", "U+020E", "U+0210", "U+0212",
     "U+0214", "U+0216", "U+0218", "U+021A", "U+021C", "U+021E", "U+0220",
     "U+0222", "U+0224", "U+0226", "U+0228", "U+022A", "U+022C", "U+022E",
     "U+0230", "U+0232", "U+023A", "U+023B", "U+023D", "U+023E", "U+0241",
     "U+0243", "U+0244", "U+0245", "U+0246", "U+0248", "U+024A", "U+024C",
     "U+024E", "U+0370", "U+0372", "U+0376", "U+037F", "Ά", "Έ", "Ή", "Ί",
     "Ό", "Ύ", "Ώ", "Α", "Β", "Γ", "Δ", "Ε", "Ζ", "Η", "Θ", "Ι", "Κ", "Λ",
     "Μ", "Ν", "Ξ", "Ο", "Π", "Ρ", "Σ", "Τ", "Υ", "Φ", "Χ", "Ψ", "Ω", "Ϊ",
     "Ϋ", "Ϗ", "ϒ", "ϓ", "ϔ", "Ϙ", "Ϛ", "Ϝ", "Ϟ", "Ϡ", "Ϣ", "Ϥ", "Ϧ", "Ϩ",
     "Ϫ", "Ϭ", "Ϯ", "ϴ", "Ϸ", "Ϲ", "Ϻ", "Ͻ", "Ͼ", "Ͽ", "U+0400", "U+0401",
     "U+0402", "U+0403", "U+0404", "U+0405", "U+0406", "U+0407", "U+0408",
     "U+0409", "U+040A", "U+040B", "U+040C", "U+040D", "U+040E", "U+040F",
     "U+0410", "U+0411", "U+0412", "U+0413", "U+0414", "U+0415", "U+0416",
     "U+0417", "U+0418", "U+0419", "U+041A", "U+041B", "U+041C", "U+041D",
     "U+041E", "U+041F", "U+0420", "U+0421", "U+0422", "U+0423", "U+0424",
     "U+0425", "U+0426", "U+0427", "U+0428", "U+0429", "U+042A", "U+042B",
     "U+042C", "U+042D", "U+042E", "U+042F", "U+0460", "U+0462", "U+0464",
     "U+0466", "U+0468", "U+046A", "U+046C", "U+046E", "U+0470", "U+0472",
     "U+0474", "U+0476", "U+0478", "U+047A", "U+047C", "U+047E", "Ҁ", "Ҋ",
     "Ҍ", "Ҏ", "Ґ", "Ғ", "Ҕ", "Җ", "Ҙ", "Қ", "Ҝ", "Ҟ", "Ҡ", "Ң", "Ҥ", "Ҧ",
     "Ҩ", "Ҫ", "Ҭ", "Ү", "Ұ", "Ҳ", "Ҵ", "Ҷ", "Ҹ", "Һ", "Ҽ", "Ҿ", "Ӏ", "Ӂ",
     "Ӄ", "Ӆ", "Ӈ", "Ӊ", "Ӌ", "Ӎ", "Ӑ", "Ӓ", "Ӕ", "Ӗ", "Ә", "Ӛ", "Ӝ", "Ӟ",
     "Ӡ", "Ӣ", "Ӥ", "Ӧ", "Ө", "Ӫ", "Ӭ", "Ӯ", "Ӱ", "Ӳ", "Ӵ", "Ӷ", "Ӹ", "Ӻ",
     "Ӽ", "Ӿ", "U+0500", "U+0502", "U+0504", "U+0506", "U+0508", "U+050A",
     "U+050C", "U+050E", "U+0510", "U+0512", "U+0514", "U+0516", "U+0518",
     "U+051A", "U+051C", "U+051E", "U+0520", "U+0522", "U+0524", "U+0526",
     "U+0528", "U+052A", "U+052C", "U+052E", "U+0531", "U+0532", "U+0533",
     "U+0534", "U+0535", "U+0536", "U+0537", "U+0538", "U+0539", "U+053A",
     "U+053B", "U+053C", "U+053D", "U+053E", "U+053F", "U+0540", "U+0541",
     "U+0542", "U+0543", "U+0544", "U+0545", "U+0546", "U+0547", "U+0548",
     "U+0549", "U+054A", "U+054B", "U+054C", "U+054D", "U+054E", "U+054F",
     "U+0550", "U+0551", "U+0552", "U+0553", "U+0554", "U+0555", "U+0556",
     "Ⴀ", "Ⴁ", "Ⴂ", "Ⴃ", "Ⴄ", "Ⴅ", "Ⴆ", "Ⴇ", "Ⴈ", "Ⴉ", "Ⴊ", "Ⴋ", "Ⴌ", "Ⴍ",
     "Ⴎ", "Ⴏ", "Ⴐ", "Ⴑ", "Ⴒ", "Ⴓ", "Ⴔ", "Ⴕ", "Ⴖ", "Ⴗ", "Ⴘ", "Ⴙ", "Ⴚ", "Ⴛ",
     "Ⴜ", "Ⴝ", "Ⴞ", "Ⴟ", "Ⴠ", "Ⴡ", "Ⴢ", "Ⴣ", "Ⴤ", "Ⴥ", "Ⴧ", "Ⴭ", "Ꭰ", "Ꭱ",
     "Ꭲ", "Ꭳ", "Ꭴ", "Ꭵ", "Ꭶ", "Ꭷ", "Ꭸ", "Ꭹ", "Ꭺ", "Ꭻ", "Ꭼ", "Ꭽ", "Ꭾ", "Ꭿ",
     "Ꮀ", "Ꮁ", "Ꮂ", "Ꮃ", "Ꮄ", "Ꮅ", "Ꮆ", "Ꮇ", "Ꮈ", "Ꮉ", "Ꮊ", "Ꮋ", "Ꮌ", "Ꮍ",
     "Ꮎ", "Ꮏ", "Ꮐ", "Ꮑ", "Ꮒ", "Ꮓ", "Ꮔ", "Ꮕ", "Ꮖ", "Ꮗ", "Ꮘ", "Ꮙ", "Ꮚ", "Ꮛ",
     "Ꮜ", "Ꮝ", "Ꮞ", "Ꮟ", "Ꮠ", "Ꮡ", "Ꮢ", "Ꮣ", "Ꮤ", "Ꮥ", "Ꮦ", "Ꮧ", "Ꮨ", "Ꮩ",
     "Ꮪ", "Ꮫ", "Ꮬ", "Ꮭ", "Ꮮ", "Ꮯ", "Ꮰ", "Ꮱ", "Ꮲ", "Ꮳ", "Ꮴ", "Ꮵ", "Ꮶ", "Ꮷ",
     "Ꮸ", "Ꮹ", "Ꮺ", "Ꮻ", "Ꮼ", "Ꮽ", "Ꮾ", "Ꮿ", "Ᏸ", "Ᏹ", "Ᏺ", "Ᏻ", "Ᏼ", "Ᏽ",
     "Ა", "Ბ", "Გ", "Დ", "Ე", "Ვ", "Ზ", "Თ", "Ი", "Კ", "Ლ", "Მ", "Ნ", "Ო",
     "Პ", "Ჟ", "Რ", "Ს", "Ტ", "Უ", "Ფ", "Ქ", "Ღ", "Ყ", "Შ", "Ჩ", "Ც", "Ძ",
     "Წ", "Ჭ", "Ხ", "Ჯ", "Ჰ", "Ჱ", "Ჲ", "Ჳ", "Ჴ", "Ჵ", "Ჶ", "Ჷ", "Ჸ", "Ჹ",
     "Ჺ", "Ჽ", "Ჾ", "Ჿ", "U+1E00", "U+1E02", "U+1E04", "U+1E06", "U+1E08",
     "U+1E0A", "U+1E0C", "U+1E0E", "U+1E10", "U+1E12", "U+1E14", "U+1E16",
     "U+1E18", "U+1E1A", "U+1E1C", "U+1E1E", "U+1E20", "U+1E22", "U+1E24",
     "U+1E26", "U+1E28", "U+1E2A", "U+1E2C", "U+1E2E", "U+1E30", "U+1E32",
     "U+1E34", "U+1E36", "U+1E38", "U+1E3A", "U+1E3C", "U+1E3E", "U+1E40",
     "U+1E42", "U+1E44", "U+1E46", "U+1E48", "U+1E4A", "U+1E4C", "U+1E4E",
     "U+1E50", "U+1E52", "U+1E54", "U+1E56", "U+1E58", "U+1E5A", "U+1E5C",
     "U+1E5E", "U+1E60", "U+1E62", "U+1E64", "U+1E66", "U+1E68", "U+1E6A",
     "U+1E6C", "U+1E6E", "U+1E70", "U+1E72", "U+1E74", "U+1E76", "U+1E78",
     "U+1E7A", "U+1E7C", "U+1E7E", "Ẁ", "Ẃ", "Ẅ", "Ẇ", "Ẉ", "Ẋ", "Ẍ", "Ẏ",
     "Ẑ", "Ẓ", "Ẕ", "ẞ", "Ạ", "Ả", "Ấ", "Ầ", "Ẩ", "Ẫ", "Ậ", "Ắ", "Ằ", "Ẳ",
     "Ẵ", "Ặ", "Ẹ", "Ẻ", "Ẽ", "Ế", "Ề", "Ể", "Ễ", "Ệ", "Ỉ", "Ị", "Ọ", "Ỏ",
     "Ố", "Ồ", "Ổ", "Ỗ", "Ộ", "Ớ", "Ờ", "Ở", "Ỡ", "Ợ", "Ụ", "Ủ", "Ứ", "Ừ",
     "Ử", "Ữ", "Ự", "Ỳ", "Ỵ", "Ỷ", "Ỹ", "Ỻ", "Ỽ", "Ỿ", "U+1F08", "U+1F09",
     "U+1F0A", "U+1F0B", "U+1F0C", "U+1F0D", "U+1F0E", "U+1F0F", "U+1F18",
     "U+1F19", "U+1F1A", "U+1F1B", "U+1F1C", "U+1F1D", "U+1F28", "U+1F29",
     "U+1F2A", "U+1F2B", "U+1F2C", "U+1F2D", "U+1F2E", "U+1F2F", "U+1F38",
     "U+1F39", "U+1F3A", "U+1F3B", "U+1F3C", "U+1F3D", "U+1F3E", "U+1F3F",
     "U+1F48", "U+1F49", "U+1F4A", "U+1F4B", "U+1F4C", "U+1F4D", "U+1F59",
     "U+1F5B", "U+1F5D", "U+1F5F", "U+1F68", "U+1F69", "U+1F6A", "U+1F6B",
     "U+1F6C", "U+1F6D", "U+1F6E", "U+1F6F", "Ᾰ", "Ᾱ", "Ὰ", "Ά", "Ὲ", "Έ",
     "Ὴ", "Ή", "Ῐ", "Ῑ", "Ὶ", "Ί", "Ῠ", "Ῡ", "Ὺ", "Ύ", "Ῥ", "Ὸ", "Ό", "Ὼ",
     "Ώ", "U+2102", "U+2107", "U+210B", "U+210C", "U+210D", "U+2110",
     "U+2111", "U+2112", "U+2115", "U+2119", "U+211A", "U+211B", "U+211C",
     "U+211D", "U+2124", "U+2126", "U+2128", "U+212A", "U+212B", "U+212C",
     "U+212D", "U+2130", "U+2131", "U+2132", "U+2133", "U+213E", "U+213F",
     "U+2145", "U+2160", "U+2161", "U+2162", "U+2163", "U+2164", "U+2165",
     "U+2166", "U+2167", "U+2168", "U+2169", "U+216A", "U+216B", "U+216C",
     "U+216D", "U+216E", "U+216F", "Ↄ", "Ⓐ", "Ⓑ", "Ⓒ", "Ⓓ", "Ⓔ", "Ⓕ", "Ⓖ",
     "Ⓗ", "Ⓘ", "Ⓙ", "Ⓚ", "Ⓛ", "Ⓜ", "Ⓝ", "Ⓞ", "Ⓟ", "Ⓠ", "Ⓡ", "Ⓢ", "Ⓣ", "Ⓤ",
     "Ⓥ", "Ⓦ", "Ⓧ", "Ⓨ", "Ⓩ", "U+2C00", "U+2C01", "U+2C02", "U+2C03",
     "U+2C04", "U+2C05", "U+2C06", "U+2C07", "U+2C08", "U+2C09", "U+2C0A",
     "U+2C0B", "U+2C0C", "U+2C0D", "U+2C0E", "U+2C0F", "U+2C10", "U+2C11",
     "U+2C12", "U+2C13", "U+2C14", "U+2C15", "U+2C16", "U+2C17", "U+2C18",
     "U+2C19", "U+2C1A", "U+2C1B", "U+2C1C", "U+2C1D", "U+2C1E", "U+2C1F",
     "U+2C20", "U+2C21", "U+2C22", "U+2C23", "U+2C24", "U+2C25", "U+2C26",
     "U+2C27", "U+2C28", "U+2C29", "U+2C2A", "U+2C2B", "U+2C2C", "U+2C2D",
     "U+2C2E", "U+2C2F", "U+2C60", "U+2C62", "U+2C63", "U+2C64", "U+2C67",
     "U+2C69", "U+2C6B", "U+2C6D", "U+2C6E", "U+2C6F", "U+2C70", "U+2C72",
     "U+2C75", "U+2C7E", "U+2C7F", "Ⲁ", "Ⲃ", "Ⲅ", "Ⲇ", "Ⲉ", "Ⲋ", "Ⲍ", "Ⲏ",
     "Ⲑ", "Ⲓ", "Ⲕ", "Ⲗ", "Ⲙ", "Ⲛ", "Ⲝ", "Ⲟ", "Ⲡ", "Ⲣ", "Ⲥ", "Ⲧ", "Ⲩ", "Ⲫ",
     "Ⲭ", "Ⲯ", "Ⲱ", "Ⲳ", "Ⲵ", "Ⲷ", "Ⲹ", "Ⲻ", "Ⲽ", "Ⲿ", "Ⳁ", "Ⳃ", "Ⳅ", "Ⳇ",
     "Ⳉ", "Ⳋ", "Ⳍ", "Ⳏ", "Ⳑ", "Ⳓ", "Ⳕ", "Ⳗ", "Ⳙ", "Ⳛ", "Ⳝ", "Ⳟ", "Ⳡ", "Ⳣ",
     "Ⳬ", "Ⳮ", "Ⳳ", "U+A640", "U+A642", "U+A644", "U+A646", "U+A648",
     "U+A64A", "U+A64C", "U+A64E", "U+A650", "U+A652", "U+A654", "U+A656",
     "U+A658", "U+A65A", "U+A65C", "U+A65E", "U+A660", "U+A662", "U+A664",
     "U+A666", "U+A668", "U+A66A", "U+A66C", "Ꚁ", "Ꚃ", "Ꚅ", "Ꚇ", "Ꚉ", "Ꚋ",
     "Ꚍ", "Ꚏ", "Ꚑ", "Ꚓ", "Ꚕ", "Ꚗ", "Ꚙ", "Ꚛ", "U+A722", "U+A724", "U+A726",
     "U+A728", "U+A72A", "U+A72C", "U+A72E", "U+A732", "U+A734", "U+A736",
     "U+A738", "U+A73A", "U+A73C", "U+A73E", "U+A740", "U+A742", "U+A744",
     "U+A746", "U+A748", "U+A74A", "U+A74C", "U+A74E", "U+A750", "U+A752",
     "U+A754", "U+A756", "U+A758", "U+A75A", "U+A75C", "U+A75E", "U+A760",
     "U+A762", "U+A764", "U+A766", "U+A768", "U+A76A", "U+A76C", "U+A76E",
     "U+A779", "U+A77B", "U+A77D", "U+A77E", "Ꞁ", "Ꞃ", "Ꞅ", "Ꞇ", "Ꞌ", "Ɥ",
     "Ꞑ", "Ꞓ", "Ꞗ", "Ꞙ", "Ꞛ", "Ꞝ", "Ꞟ", "Ꞡ", "Ꞣ", "Ꞥ", "Ꞧ", "Ꞩ", "Ɦ", "Ɜ",
     "Ɡ", "Ɬ", "Ɪ", "Ʞ", "Ʇ", "Ʝ", "Ꭓ", "Ꞵ", "Ꞷ", "Ꞹ", "Ꞻ", "Ꞽ", "Ꞿ", "Ꟁ",
     "Ꟃ", "Ꞔ", "Ʂ", "Ᶎ", "Ꟈ", "Ꟊ", "Ꟑ", "Ꟗ", "Ꟙ", "Ꟶ", "U+FF21", "U+FF22",
     "U+FF23", "U+FF24", "U+FF25", "U+FF26", "U+FF27", "U+FF28", "U+FF29",
     "U+FF2A", "U+FF2B", "U+FF2C", "U+FF2D", "U+FF2E", "U+FF2F", "U+FF30",
     "U+FF31", "U+FF32", "U+FF33", "U+FF34", "U+FF35", "U+FF36", "U+FF37",
     "U+FF38", "U+FF39", "U+FF3A", "U+10400", "U+10401", "U+10402", "U+10403",
     "U+10404", "U+10405", "U+10406", "U+10407", "U+10408", "U+10409",
     "U+1040A", "U+1040B", "U+1040C", "U+1040D", "U+1040E", "U+1040F",
     "U+10410", "U+10411", "U+10412", "U+10413", "U+10414", "U+10415",
     "U+10416", "U+10417", "U+10418", "U+10419", "U+1041A", "U+1041B",
     "U+1041C", "U+1041D", "U+1041E", "U+1041F", "U+10420", "U+10421",
     "U+10422", "U+10423", "U+10424", "U+10425", "U+10426", "U+10427",
     "U+104B0", "U+104B1", "U+104B2", "U+104B3", "U+104B4", "U+104B5",
     "U+104B6", "U+104B7", "U+104B8", "U+104B9", "U+104BA", "U+104BB",
     "U+104BC", "U+104BD", "U+104BE", "U+104BF", "U+104C0", "U+104C1",
     "U+104C2", "U+104C3", "U+104C4", "U+104C5", "U+104C6", "U+104C7",
     "U+104C8", "U+104C9", "U+104CA", "U+104CB", "U+104CC", "U+104CD",
     "U+104CE", "U+104CF", "U+104D0", "U+104D1", "U+104D2", "U+104D3",
     "U+10570", "U+10571", "U+10572", "U+10573", "U+10574", "U+10575",
     "U+10576", "U+10577", "U+10578", "U+10579", "U+1057A", "U+1057C",
     "U+1057D", "U+1057E", "U+1057F", "U+10580", "U+10581", "U+10582",
     "U+10583", "U+10584", "U+10585", "U+10586", "U+10587", "U+10588",
     "U+10589", "U+1058A", "U+1058C", "U+1058D", "U+1058E", "U+1058F",
     "U+10590", "U+10591", "U+10592", "U+10594", "U+10595", "U+10C80",
     "U+10C81", "U+10C82", "U+10C83", "U+10C84", "U+10C85", "U+10C86",
     "U+10C87", "U+10C88", "U+10C89", "U+10C8A", "U+10C8B", "U+10C8C",
     "U+10C8D", "U+10C8E", "U+10C8F", "U+10C90", "U+10C91", "U+10C92",
     "U+10C93", "U+10C94", "U+10C95", "U+10C96", "U+10C97", "U+10C98",
     "U+10C99", "U+10C9A", "U+10C9B", "U+10C9C", "U+10C9D", "U+10C9E",
     "U+10C9F", "U+10CA0", "U+10CA1", "U+10CA2", "U+10CA3", "U+10CA4",
     "U+10CA5", "U+10CA6", "U+10CA7", "U+10CA8", "U+10CA9", "U+10CAA",
     "U+10CAB", "U+10CAC", "U+10CAD", "U+10CAE", "U+10CAF", "U+10CB0",
     "U+10CB1", "U+10CB2", "U+118A0", "U+118A1", "U+118A2", "U+118A3",
     "U+118A4", "U+118A5", "U+118A6", "U+118A7", "U+118A8", "U+118A9",
     "U+118AA", "U+118AB", "U+118AC", "U+118AD", "U+118AE", "U+118AF",
     "U+118B0", "U+118B1", "U+118B2", "U+118B3", "U+118B4", "U+118B5",
     "U+118B6", "U+118B7", "U+118B8", "U+118B9", "U+118BA", "U+118BB",
     "U+118BC", "U+118BD", "U+118BE", "U+118BF", "U+16E40", "U+16E41",
     "U+16E42", "U+16E43", "U+16E44", "U+16E45", "U+16E46", "U+16E47",
     "U+16E48", "U+16E49", "U+16E4A", "U+16E4B", "U+16E4C", "U+16E4D",
     "U+16E4E", "U+16E4F", "U+16E50", "U+16E51", "U+16E52", "U+16E53",
     "U+16E54", "U+16E55", "U+16E56", "U+16E57", "U+16E58", "U+16E59",
     "U+16E5A", "U+16E5B", "U+16E5C", "U+16E5D", "U+16E5E", "U+16E5F",
     "U+1D400", "U+1D401", "U+1D402", "U+1D403", "U+1D404", "U+1D405",
     "U+1D406", "U+1D407", "U+1D408", "U+1D409", "U+1D40A", "U+1D40B",
     "U+1D40C", "U+1D40D", "U+1D40E", "U+1D40F", "U+1D410", "U+1D411",
     "U+1D412", "U+1D413", "U+1D414", "U+1D415", "U+1D416", "U+1D417",
     "U+1D418", "U+1D419", "U+1D434", "U+1D435", "U+1D436", "U+1D437",
     "U+1D438", "U+1D439", "U+1D43A", "U+1D43B", "U+1D43C", "U+1D43D",
     "U+1D43E", "U+1D43F", "U+1D440", "U+1D441", "U+1D442", "U+1D443",
     "U+1D444", "U+1D445", "U+1D446", "U+1D447", "U+1D448", "U+1D449",
     "U+1D44A", "U+1D44B", "U+1D44C", "U+1D44D", "U+1D468", "U+1D469",
     "U+1D46A", "U+1D46B", "U+1D46C", "U+1D46D", "U+1D46E", "U+1D46F",
     "U+1D470", "U+1D471", "U+1D472", "U+1D473", "U+1D474", "U+1D475",
     "U+1D476", "U+1D477", "U+1D478", "U+1D479", "U+1D47A", "U+1D47B",
     "U+1D47C", "U+1D47D", "U+1D47E", "U+1D47F", "U+1D480", "U+1D481",
     "U+1D49C", "U+1D49E", "U+1D49F", "U+1D4A2", "U+1D4A5", "U+1D4A6",
     "U+1D4A9", "U+1D4AA", "U+1D4AB", "U+1D4AC", "U+1D4AE", "U+1D4AF",
     "U+1D4B0", "U+1D4B1", "U+1D4B2", "U+1D4B3", "U+1D4B4", "U+1D4B5",
     "U+1D4D0", "U+1D4D1", "U+1D4D2", "U+1D4D3", "U+1D4D4", "U+1D4D5",
     "U+1D4D6", "U+1D4D7", "U+1D4D8", "U+1D4D9", "U+1D4DA", "U+1D4DB",
     "U+1D4DC", "U+1D4DD", "U+1D4DE", "U+1D4DF", "U+1D4E0", "U+1D4E1",
     "U+1D4E2", "U+1D4E3", "U+1D4E4", "U+1D4E5", "U+1D4E6", "U+1D4E7",
     "U+1D4E8", "U+1D4E9", "U+1D504", "U+1D505", "U+1D507", "U+1D508",
     "U+1D509", "U+1D50A", "U+1D50D", "U+1D50E", "U+1D50F", "U+1D510",
     "U+1D511", "U+1D512", "U+1D513", "U+1D514", "U+1D516", "U+1D517",
     "U+1D518", "U+1D519", "U+1D51A", "U+1D51B", "U+1D51C", "U+1D538",
     "U+1D539", "U+1D53B", "U+1D53C", "U+1D53D", "U+1D53E", "U+1D540",
     "U+1D541", "U+1D542", "U+1D543", "U+1D544", "U+1D546", "U+1D54A",
     "U+1D54B", "U+1D54C", "U+1D54D", "U+1D54E", "U+1D54F", "U+1D550",
     "U+1D56C", "U+1D56D", "U+1D56E", "U+1D56F", "U+1D570", "U+1D571",
     "U+1D572", "U+1D573", "U+1D574", "U+1D575", "U+1D576", "U+1D577",
     "U+1D578", "U+1D579", "U+1D57A", "U+1D57B", "U+1D57C", "U+1D57D",
     "U+1D57E", "U+1D57F", "U+1D580", "U+1D581", "U+1D582", "U+1D583",
     "U+1D584", "U+1D585", "U+1D5A0", "U+1D5A1", "U+1D5A2", "U+1D5A3",
     "U+1D5A4", "U+1D5A5", "U+1D5A6", "U+1D5A7", "U+1D5A8", "U+1D5A9",
     "U+1D5AA", "U+1D5AB", "U+1D5AC", "U+1D5AD", "U+1D5AE", "U+1D5AF",
     "U+1D5B0", "U+1D5B1", "U+1D5B2", "U+1D5B3", "U+1D5B4", "U+1D5B5",
     "U+1D5B6", "U+1D5B7", "U+1D5B8", "U+1D5B9", "U+1D5D4", "U+1D5D5",
     "U+1D5D6", "U+1D5D7", "U+1D5D8", "U+1D5D9", "U+1D5DA", "U+1D5DB",
     "U+1D5DC", "U+1D5DD", "U+1D5DE", "U+1D5DF", "U+1D5E0", "U+1D5E1",
     "U+1D5E2", "U+1D5E3", "U+1D5E4", "U+1D5E5", "U+1D5E6", "U+1D5E7",
     "U+1D5E8", "U+1D5E9", "U+1D5EA", "U+1D5EB", "U+1D5EC", "U+1D5ED",
     "U+1D608", "U+1D609", "U+1D60A", "U+1D60B", "U+1D60C", "U+1D60D",
     "U+1D60E", "U+1D60F", "U+1D610", "U+1D611", "U+1D612", "U+1D613",
     "U+1D614", "U+1D615", "U+1D616", "U+1D617", "U+1D618", "U+1D619",
     "U+1D61A", "U+1D61B", "U+1D61C", "U+1D61D", "U+1D61E", "U+1D61F",
     "U+1D620", "U+1D621", "U+1D63C", "U+1D63D", "U+1D63E", "U+1D63F",
     "U+1D640", "U+1D641", "U+1D642", "U+1D643", "U+1D644", "U+1D645",
     "U+1D646", "U+1D647", "U+1D648", "U+1D649", "U+1D64A", "U+1D64B",
     "U+1D64C", "U+1D64D", "U+1D64E", "U+1D64F", "U+1D650", "U+1D651",
     "U+1D652", "U+1D653", "U+1D654", "U+1D655", "U+1D670", "U+1D671",
     "U+1D672", "U+1D673", "U+1D674", "U+1D675", "U+1D676", "U+1D677",
     "U+1D678", "U+1D679", "U+1D67A", "U+1D67B", "U+1D67C", "U+1D67D",
     "U+1D67E", "U+1D67F", "U+1D680", "U+1D681", "U+1D682", "U+1D683",
     "U+1D684", "U+1D685", "U+1D686", "U+1D687", "U+1D688", "U+1D689",
     "U+1D6A8", "U+1D6A9", "U+1D6AA", "U+1D6AB", "U+1D6AC", "U+1D6AD",
     "U+1D6AE", "U+1D6AF", "U+1D6B0", "U+1D6B1", "U+1D6B2", "U+1D6B3",
     "U+1D6B4", "U+1D6B5", "U+1D6B6", "U+1D6B7", "U+1D6B8", "U+1D6B9",
     "U+1D6BA", "U+1D6BB", "U+1D6BC", "U+1D6BD", "U+1D6BE", "U+1D6BF",
     "U+1D6C0", "U+1D6E2", "U+1D6E3", "U+1D6E4", "U+1D6E5", "U+1D6E6",
     "U+1D6E7", "U+1D6E8", "U+1D6E9", "U+1D6EA", "U+1D6EB", "U+1D6EC",
     "U+1D6ED", "U+1D6EE", "U+1D6EF", "U+1D6F0", "U+1D6F1", "U+1D6F2",
     "U+1D6F3", "U+1D6F4", "U+1D6F5", "U+1D6F6", "U+1D6F7", "U+1D6F8",
     "U+1D6F9", "U+1D6FA", "U+1D71C", "U+1D71D", "U+1D71E", "U+1D71F",
     "U+1D720", "U+1D721", "U+1D722", "U+1D723", "U+1D724", "U+1D725",
     "U+1D726", "U+1D727", "U+1D728", "U+1D729", "U+1D72A", "U+1D72B",
     "U+1D72C", "U+1D72D", "U+1D72E", "U+1D72F", "U+1D730", "U+1D731",
     "U+1D732", "U+1D733", "U+1D734", "U+1D756", "U+1D757", "U+1D758",
     "U+1D759", "U+1D75A", "U+1D75B", "U+1D75C", "U+1D75D", "U+1D75E",
     "U+1D75F", "U+1D760", "U+1D761", "U+1D762", "U+1D763", "U+1D764",
     "U+1D765", "U+1D766", "U+1D767", "U+1D768", "U+1D769", "U+1D76A",
     "U+1D76B", "U+1D76C", "U+1D76D", "U+1D76E", "U+1D790", "U+1D791",
     "U+1D792", "U+1D793", "U+1D794", "U+1D795", "U+1D796", "U+1D797",
     "U+1D798", "U+1D799", "U+1D79A", "U+1D79B", "U+1D79C", "U+1D79D",
     "U+1D79E", "U+1D79F", "U+1D7A0", "U+1D7A1", "U+1D7A2", "U+1D7A3",
     "U+1D7A4", "U+1D7A5", "U+1D7A6", "U+1D7A7", "U+1D7A8", "U+1D7CA",
     "U+1E900", "U+1E901", "U+1E902", "U+1E903", "U+1E904", "U+1E905",
     "U+1E906", "U+1E907", "U+1E908", "U+1E909", "U+1E90A", "U+1E90B",
     "U+1E90C", "U+1E90D", "U+1E90E", "U+1E90F", "U+1E910", "U+1E911",
     "U+1E912", "U+1E913", "U+1E914", "U+1E915", "U+1E916", "U+1E917",
     "U+1E918", "U+1E919", "U+1E91A", "U+1E91B", "U+1E91C", "U+1E91D",
     "U+1E91E", "U+1E91F", "U+1E920", "U+1E921", "U+1F130", "U+1F131",
     "U+1F132", "U+1F133", "U+1F134", "U+1F135", "U+1F136", "U+1F137",
     "U+1F138", "U+1F139", "U+1F13A", "U+1F13B", "U+1F13C", "U+1F13D",
     "U+1F13E", "U+1F13F", "U+1F140", "U+1F141", "U+1F142", "U+1F143",
     "U+1F144", "U+1F145", "U+1F146", "U+1F147", "U+1F148", "U+1F149",
     "U+1F150", "U+1F151", "U+1F152", "U+1F153", "U+1F154", "U+1F155",
     "U+1F156", "U+1F157", "U+1F158", "U+1F159", "U+1F15A", "U+1F15B",
     "U+1F15C", "U+1F15D", "U+1F15E", "U+1F15F", "U+1F160", "U+1F161",
     "U+1F162", "U+1F163", "U+1F164", "U+1F165", "U+1F166", "U+1F167",
     "U+1F168", "U+1F169", "U+1F170", "U+1F171", "U+1F172", "U+1F173",
     "U+1F174", "U+1F175", "U+1F176", "U+1F177", "U+1F178", "U+1F179",
     "U+1F17A", "U+1F17B", "U+1F17C", "U+1F17D", "U+1F17E", "U+1F17F",
     "U+1F180", "U+1F181", "U+1F182", "U+1F183", "U+1F184", "U+1F185",
     "U+1F186", "U+1F187", "U+1F188", "U+1F189"}

\* IsUpper taking every character that is not '-'
IsUpperAnyCharacter(character) == character # "-"

IsUpper(character) == character \in UpperCase

\* str.find(character): the first index (from 0) or -1
RECURSIVE FindFrom(_, _, _)
FindFrom(row, character, i) ==
    IF i > Len(row) THEN -1
    ELSE IF row[i] = character THEN i - 1
    ELSE FindFrom(row, character, i + 1)

Find(row, character) == FindFrom(row, character, 1)

\* for y_offset, pattern_row in enumerate(pattern_rows): ... break / else:
\* the (x_offset, y_offset) of the first row holding 'O', or <<-1, -1>>
RECURSIVE OriginOffsetFrom(_, _)
OriginOffsetFrom(pattern_rows, y) ==
    IF y > Len(pattern_rows) THEN <<-1, -1>>
    ELSE IF Find(pattern_rows[y], "O") >= 0
         THEN <<Find(pattern_rows[y], "O"), y - 1>>
    ELSE OriginOffsetFrom(pattern_rows, y + 1)

OriginOffset(pattern_rows) == OriginOffsetFrom(pattern_rows, 1)

\* dict with one item set
DictSet(dict, key, value) ==
    [k \in DOMAIN dict \cup {key} |-> IF k = key THEN value ELSE dict[k]]

EmptyDict == [k \in {} |-> Origin]

\* the frame of a call that has not started
HexIdle ==
    [pc |-> "idle", pattern_rows |-> << >>, slot_pairs |-> << >>,
     hex_origin |-> Origin, hole_diameter |-> 0, label |-> "",
     upper_left_known |-> FALSE, upper_left_origin |-> Origin,
     y_index |-> 0, x_index |-> 0, slot_index |-> 0,
     simple_polygons |-> << >>, locations |-> EmptyDict]

\* the frame on entry: the five arguments
HexCall(pattern_rows, slot_pairs, hex_origin, hole_diameter, label) ==
    [HexIdle EXCEPT !.pc = "find_origin", !.pattern_rows = pattern_rows,
                    !.slot_pairs = slot_pairs, !.hex_origin = hex_origin, !.hole_diameter = hole_diameter,
                    !.label = label]

\* the position after (x_index, y_index) in the two nested loops, rows of any
\* length; y_index = Len(pattern_rows) when both loops are over
RECURSIVE ScanSkip(_, _, _)
ScanSkip(pattern_rows, x_index, y_index) ==
    IF y_index >= Len(pattern_rows) THEN <<0, y_index>>
    ELSE IF x_index < Len(pattern_rows[y_index + 1]) THEN <<x_index, y_index>>
    ELSE ScanSkip(pattern_rows, 0, y_index + 1)

\* HexFindStep with the for/else assertion left out
HexFindStepNoAssert(f) ==
    LET offset == OriginOffset(f.pattern_rows)
        first == ScanSkip(f.pattern_rows, 0, 0)
    IN  [f EXCEPT !.upper_left_known = offset[1] >= 0,
                  !.upper_left_origin =
                      IF offset[1] >= 0
                      THEN P2D(f.hex_origin.x - offset[1] * HalfHexDxPitch,
                               f.hex_origin.y + offset[2] * HexDyPitch)
                      ELSE f.upper_left_origin,
                  !.x_index = first[1], !.y_index = first[2],
                  !.pc = IF first[2] >= Len(f.pattern_rows) THEN "slots"
                                                            ELSE "scan"]

\* lines 447-458: locate 'O', or fail "No origin hole found."
HexFindStep(f) ==
    LET offset == OriginOffset(f.pattern_rows)
        first == ScanSkip(f.pattern_rows, 0, 0)
    IN  IF offset[1] >= 0
        THEN [f EXCEPT !.upper_left_known = TRUE,
                       !.upper_left_origin =
                           P2D(f.hex_origin.x - offset[1] * HalfHexDxPitch,
                               f.hex_origin.y + offset[2] * HexDyPitch),
                       !.x_index = first[1], !.y_index = first[2],
                       !.pc = IF first[2] >= Len(f.pattern_rows) THEN "slots"
                                                                 ELSE "scan"]
        ELSE [f EXCEPT !.pc = "abort"]

\* HexHole named without the position in the pattern
HexHoleUnindexed(label, x_index, y_index, hole_diameter, hole_center) ==
    Circle(<<"RIGHT:", label, "Hex", "Hole">>,
           hole_diameter, PointsCount, hole_center)

\* the hole of an upper case character
HexHole(label, x_index, y_index, hole_diameter, hole_center) ==
    Circle(<<"RIGHT:", label, "Hex", "Hole",
             "(" \o Str(x_index) \o ",", Str(y_index) \o ")">>,
           hole_diameter, PointsCount, hole_center)

\* HexScanStep entering a location only for an upper case character
HexScanStepUpperOnly(f) ==
    LET pattern_character == f.pattern_rows[f.y_index + 1][f.x_index + 1]
        y == f.upper_left_origin.y - f.y_index * HexDyPitch
        xx == f.upper_left_origin.x + f.x_index * HalfHexDxPitch
        hole_center == P2D(xx, y)
        next == ScanSkip(f.pattern_rows, f.x_index + 1, f.y_index)
        g == [f EXCEPT !.x_index = next[1], !.y_index = next[2],
                       !.pc = IF next[2] >= Len(f.pattern_rows) THEN "slots"
                                                                ELSE "scan"]
    IN  IF IsUpper(pattern_character)
        THEN [g EXCEPT !.locations = DictSet(f.locations, pattern_character,
                                             hole_center),
                       !.simple_polygons =
                           Append(f.simple_polygons,
                                  HexHole(f.label, f.x_index, f.y_index,
                                          f.hole_diameter, hole_center))]
        ELSE g

\* lines 475-488: one pattern character
HexScanStep(f) ==
    LET pattern_character == f.pattern_rows[f.y_index + 1][f.x_index + 1]
        y == f.upper_left_origin.y - f.y_index * HexDyPitch
        xx == f.upper_left_origin.x + f.x_index * HalfHexDxPitch
        hole_center == P2D(xx, y)
        next == ScanSkip(f.pattern_rows, f.x_index + 1, f.y_index)
        g == [f EXCEPT !.x_index = next[1], !.y_index = next[2],
                       !.pc = IF next[2] >= Len(f.pattern_rows) THEN "slots"
                                                                ELSE "scan"]
    IN  IF pattern_character # "-"
        THEN [g EXCEPT !.locations = DictSet(f.locations, pattern_character,
                                             hole_center),
                       !.simple_polygons =
                           IF IsUpper(pattern_character)
                           THEN Append(f.simple_polygons,
                                       HexHole(f.label, f.x_index, f.y_index,
                                               f.hole_diameter, hole_center))
                           ELSE f.simple_polygons]
        ELSE g

\* HexSlot with the length taken between the two anchors
HexSlotAnchorLength(label, slot_pair, hole1, hole2, inches2mm) ==
    Square(<<"RIGHT:", label, "Slot",
             "'" \o slot_pair[1] \o slot_pair[2] \o "'">>,
           Distance(hole1, hole2), SlotWidth(inches2mm),
           P2DDiv(P2DAdd(hole1, hole2), 2),
           Atan2(hole1.y - hole2.y, hole1.x - hole2.x),
           Half(SlotWidth(inches2mm)), PointsCount)

\* HexSlot with the angle taken from the first anchor to the second
HexSlotReversedAngle(label, slot_pair, hole1, hole2, inches2mm) ==
    Square(<<"RIGHT:", label, "Slot",
             "'" \o slot_pair[1] \o slot_pair[2] \o "'">>,
           SlotLength(inches2mm), SlotWidth(inches2mm),
           P2DDiv(P2DAdd(hole1, hole2), 2),
           Atan2(hole2.y - hole1.y, hole2.x - hole1.x),
           Half(SlotWidth(inches2mm)), PointsCount)

\* the slot between two anchors
HexSlot(label, slot_pair, hole1, hole2, inches2mm) ==
    LET center == P2DDiv(P2DAdd(hole1, hole2), 2)
        slot_angle == Atan2(hole1.y - hole2.y, hole1.x - hole2.x)
        corner_radius == Half(SlotWidth(inches2mm))
    IN  Square(<<"RIGHT:", label, "Slot",
                 "'" \o slot_pair[1] \o slot_pair[2] \o "'">>,
               SlotLength(inches2mm), SlotWidth(inches2mm), center,
               slot_angle, corner_radius, PointsCount)

\* lines 493-503: the next slot pair; a letter that is no key of locations
\* raises KeyError
HexSlotStep(f, inches2mm) ==
    LET slot_pair == f.slot_pairs[f.slot_index + 1]
    IN  IF slot_pair[1] \in DOMAIN f.locations /\ slot_pair[2] \in DOMAIN f.locations
        THEN [f EXCEPT !.slot_index = f.slot_index + 1,
                       !.simple_polygons =
                           Append(f.simple_polygons,
                                  HexSlot(f.label, slot_pair,
                                          f.locations[slot_pair[1]],
                                          f.locations[slot_pair[2]], inches2mm))]
        ELSE [f EXCEPT !.pc = "raise"]

\* line 506: return simple_polygons, locations
HexReturnStep(f) == [f EXCEPT !.pc = "return"]

HexDone(f) == f.pc \in {"return", "abort", "raise"}

\* the next statement of the call
HexStep(f, inches2mm) ==
    CASE f.pc = "find_origin" -> HexFindStep(f)
      [] f.pc = "scan" -> HexScanStep(f)
      [] f.pc = "slots" -> IF f.slot_index < Len(f.slot_pairs)
                           THEN HexSlotStep(f, inches2mm)
                           ELSE HexReturnStep(f)
      [] OTHER -> f

\* the next n statements, or all that are left
RECURSIVE HexRunSteps(_, _, _)
HexRunSteps(f, n, inches2mm) ==
    IF n = 0 \/ HexDone(f) THEN f
    ELSE IF n = 1 THEN HexStep(f, inches2mm)
    ELSE LET first_half == HexRunSteps(f, n \div 2, inches2mm)
         IN  HexRunSteps(first_half, n - n \div 2, inches2mm)

RECURSIVE PatternSize(_, _)
PatternSize(pattern_rows, y) ==
    IF y > Len(pattern_rows) THEN 0
    ELSE Len(pattern_rows[y]) + PatternSize(pattern_rows, y + 1)

\* the call run to its end: the origin search, one step per pattern character,
\* one per slot pair, the return
HexRun(f, inches2mm) ==
    HexRunSteps(f, 2 + PatternSize(f.pattern_rows, 1) + Len(f.slot_pairs),
                inches2mm)

HexPatternGet(r, pattern_rows, slot_pairs, hex_origin, hole_diameter, label) ==
    HexRun(HexCall(pattern_rows, slot_pairs, hex_origin, hole_diameter, label),
           r.inches2mm)

----------------------------------------------------------------------------
(* Romi.hex_pattern_get in binary64                                        *)

(* The frames above hold lengths as whole nanometres, where x - d + d = x.
   The code holds them as Python floats, binary64 numbers, and every product,
   sum and difference is rounded to 53 significant bits, a tie going to the
   even significand.  The definitions below compute those operations bit for
   bit and follow both coordinates of a call.  A number is a record: its value
   is sign * man * 2^exp, man a Wide integer that is 0 or lies in
   [2^52, 2^53).  The numbers of a pattern are far from the overflow and the
   underflow of binary64, so exp is left unbounded. *)

Two52 == <<496, 370, 627, 599, 503, 4>>

Two53 == <<992, 740, 254, 199, 7, 9>>

Float64(sign, man, exp) == [sign |-> sign, man |-> man, exp |-> exp]

\* 0.0
Float64Zero == Float64(1, WideOf(0), 0)

\* hex_dy_pitch = 7.50 = 15 * 2^49 * 2^-50
HexDyPitch64 == Float64(1, <<680, 319, 301, 249, 444, 8>>, -50)

\* half_hex_dx_pitch = hex_dy_pitch / sqrt(3.0) = 4.330127018922194,
\* 0x1.1520cd1372febp+2 = 4875289607221227 * 2^-50
HalfHexDxPitch64 == Float64(1, <<227, 221, 607, 289, 875, 4>>, -50)

\* the difference of two Wide numbers
WideSub(u, v) == WideNorm([i \in 1..6 |-> u[i] - v[i]])

\* a Wide number times a small integer
WideTimes(k, w) == WideNorm([i \in 1..6 |-> k * w[i]])

\* a Wide number below 10^18 halved, the odd bit dropped: 500 * w / 1000
WideHalf(w) ==
    LET p == WideTimes(500, w)
    IN  WideNorm(<<p[2], p[3], p[4], p[5], p[6], 0>>)

WideOdd(w) == w[1] % 2 = 1

\* w shifted right by d bits; sticky tells whether a 1 was shifted out
RECURSIVE WideShiftRight(_, _, _)
WideShiftRight(w, d, sticky) ==
    IF d = 0 THEN [n |-> w, sticky |-> sticky]
    ELSE WideShiftRight(WideHalf(w), d - 1, sticky \/ WideOdd(w))

\* a nonzero significand below 2^52 brought up to [2^52, 2^53)
RECURSIVE Float64Normalize(_, _, _)
Float64Normalize(sign, n, exp) ==
    IF WideLeq(Two52, n) THEN Float64(sign, n, exp)
    ELSE Float64Normalize(sign, WideAdd(n, n), exp - 1)

\* a significand of 2^53 or more brought down to 53 bits: round_bit is the
\* last bit dropped, sticky tells whether a 1 was dropped before it; rounds
\* to the nearest, a tie to the even significand
RECURSIVE Float64RoundBits(_, _, _, _, _)
Float64RoundBits(sign, n, exp, round_bit, sticky) ==
    IF WideLeq(Two53, n)
    THEN Float64RoundBits(sign, WideHalf(n), exp + 1, WideOdd(n),
                          sticky \/ round_bit)
    ELSE IF round_bit /\ (sticky \/ WideOdd(n))
         THEN IF WideAdd(n, WideOf(1)) = Two53
              THEN Float64(sign, Two52, exp + 1)
              ELSE Float64(sign, WideAdd(n, WideOf(1)), exp)
         ELSE Float64(sign, n, exp)

\* the binary64 number nearest to sign * n * 2^exp, or to a little more in
\* magnitude when sticky
Float64Round(sign, n, exp, sticky) ==
    IF n = WideOf(0) THEN Float64Zero
    ELSE IF WideLeq(Two53, n) THEN Float64RoundBits(sign, n, exp, FALSE, sticky)
    ELSE Float64Normalize(sign, n, exp)

\* |x| >= |y| for two nonzero numbers
Float64Outweighs(x, y) ==
    x.exp > y.exp \/ (x.exp = y.exp /\ WideLeq(y.man, x.man))

\* big + small, |big| >= |small| > 0: small is aligned to big with three more
\* bits and a sticky bit, the sum or the difference is rounded; all of small
\* is below those bits from 60 places on
Float64AddAligned(big, small) ==
    LET d == Min(big.exp - small.exp, 60)
        shifted == WideShiftRight(WideTimes(8, small.man), d, FALSE)
        sum == IF big.sign = small.sign
               THEN WideAdd(WideTimes(8, big.man), shifted.n)
               ELSE WideSub(WideSub(WideTimes(8, big.man), shifted.n),
                            WideOf(IF shifted.sticky THEN 1 ELSE 0))
    IN  Float64Round(big.sign, sum, big.exp - 3, shifted.sticky)

\* x + y
Float64Add(x, y) ==
    IF x.man = WideOf(0) THEN y
    ELSE IF y.man = WideOf(0) THEN x
    ELSE IF Float64Outweighs(x, y) THEN Float64AddAligned(x, y)
    ELSE Float64AddAligned(y, x)

\* -x
Float64Neg(x) == IF x.man = WideOf(0) THEN x ELSE [x EXCEPT !.sign = -x.sign]

\* x - y
Float64Sub(x, y) == Float64Add(x, Float64Neg(y))

\* index * x for an index of a pattern, int times float
Float64Times(index, x) ==
    IF index = 0 \/ x.man = WideOf(0) THEN Float64Zero
    ELSE Float64Round(x.sign, WideTimes(index, x.man), x.exp, FALSE)

\* the frame of a call that has not started
Hex64Idle ==
    [pc |-> "idle", pattern_rows |-> << >>,
     hex_origin |-> P2D(Float64Zero, Float64Zero),
     upper_left_origin |-> P2D(Float64Zero, Float64Zero),
     y_index |-> 0, x_index |-> 0, locations |-> EmptyDict]

\* the frame on entry
Hex64Call(pattern_rows, hex_origin) ==
    [Hex64Idle EXCEPT !.pc = "find_origin", !.pattern_rows = pattern_rows,
                      !.hex_origin = hex_origin]

\* Hex64FindStep with upper_left_origin_y = hex_origin.y - y_offset * hex_dy_pitch
Hex64FindStepDownward(f) ==
    LET offset == OriginOffset(f.pattern_rows)
        first == ScanSkip(f.pattern_rows, 0, 0)
    IN  IF offset[1] >= 0
        THEN [f EXCEPT !.upper_left_origin =
                           P2D(Float64Sub(f.hex_origin.x,
                                          Float64Times(offset[1],
                                                       HalfHexDxPitch64)),
                               Float64Sub(f.hex_origin.y,
                                          Float64Times(offset[2],
                                                       HexDyPitch64))),
                       !.x_index = first[1], !.y_index = first[2],
                       !.pc = IF first[2] >= Len(f.pattern_rows) THEN "slots"
                                                                 ELSE "scan"]
        ELSE [f EXCEPT !.pc = "abort"]

\* lines 447-458: upper_left_origin_x = hex_origin.x - x_offset *
\* half_hex_dx_pitch, upper_left_origin_y = hex_origin.y + y_offset *
\* hex_dy_pitch
Hex64FindStep(f) ==
    LET offset == OriginOffset(f.pattern_rows)
        first == ScanSkip(f.pattern_rows, 0, 0)
    IN  IF offset[1] >= 0
        THEN [f EXCEPT !.upper_left_origin =
                           P2D(Float64Sub(f.hex_origin.x,
                                          Float64Times(offset[1],
                                                       HalfHexDxPitch64)),
                               Float64Add(f.hex_origin.y,
                                          Float64Times(offset[2],
                                                       HexDyPitch64))),
                       !.x_index = first[1], !.y_index = first[2],
                       !.pc = IF first[2] >= Len(f.pattern_rows) THEN "slots"
                                                                 ELSE "scan"]
        ELSE [f EXCEPT !.pc = "abort"]

\* lines 471-481: y = upper_left_origin_y - (y_index * hex_dy_pitch),
\* x = upper_left_origin_x + (x_index * half_hex_dx_pitch), one character
Hex64ScanStep(f) ==
    LET pattern_character == f.pattern_rows[f.y_index + 1][f.x_index + 1]
        y == Float64Sub(f.upper_left_origin.y,
                        Float64Times(f.y_index, HexDyPitch64))
        xx == Float64Add(f.upper_left_origin.x,
                         Float64Times(f.x_index, HalfHexDxPitch64))
        next == ScanSkip(f.pattern_rows, f.x_index + 1, f.y_index)
        g == [f EXCEPT !.x_index = next[1], !.y_index = next[2],
                       !.pc = IF next[2] >= Len(f.pattern_rows) THEN "slots"
                                                                ELSE "scan"]
    IN  IF pattern_character # "-"
        THEN [g EXCEPT !.locations = DictSet(f.locations, pattern_character,
                                             P2D(xx, y))]
        ELSE g

\* line 506: return simple_polygons, locations
Hex64ReturnStep(f) == [f EXCEPT !.pc = "return"]

----------------------------------------------------------------------------
(* Romi.hole_locate, Romi.rectangle_locate                                 *)

\* HoleLocate without abs() on the two extents
HoleLocateSigned(r, name, x1, y1, x2, y2) ==
    LET mx1 == InchesToMm(x1, r.inches2mm)
        my1 == InchesToMm(y1, r.inches2mm)
        mx2 == InchesToMm(x2, r.inches2mm)
        my2 == InchesToMm(y2, r.inches2mm)
        dx == mx2 - mx1
        dy == my2 - my1
        center_x == Half(mx1 + mx2)
        center_y == Half(my1 + my2)
        diameter == Half(dx + dy)
    IN  Circle(name, diameter, 8, P2DSub(P2D(center_x, center_y), r.origin_offset))

\* hole_locate(name, x1, y1, x2, y2): the corners in micro-inches
HoleLocate(r, name, x1, y1, x2, y2) ==
    LET mx1 == InchesToMm(x1, r.inches2mm)
        my1 == InchesToMm(y1, r.inches2mm)
        mx2 == InchesToMm(x2, r.inches2mm)
        my2 == InchesToMm(y2, r.inches2mm)
        dx == Abs(mx2 - mx1)
        dy == Abs(my2 - my1)
        center_x == Half(mx1 + mx2)
        center_y == Half(my1 + my2)
        diameter == Half(dx + dy)
    IN  Circle(name, diameter, 8, P2DSub(P2D(center_x, center_y), r.origin_offset))

\* rectangle_locate(name, x1, y1, x2, y2): the corners in micro-inches
RectangleLocate(r, name, x1, y1, x2, y2) ==
    LET mx1 == InchesToMm(x1, r.inches2mm)
        my1 == InchesToMm(y1, r.inches2mm)
        mx2 == InchesToMm(x2, r.inches2mm)
        my2 == InchesToMm(y2, r.inches2mm)
        dx == Abs(mx2 - mx1)
        dy == Abs(my2 - my1)
        center == P2DSub(P2D(Half(mx1 + mx2), Half(my1 + my2)), r.origin_offset)
    IN  SquarePlain(name, dx, dy, center)

\* the concatenation of a sequence of sequences, in order
RECURSIVE Flatten(_)
Flatten(seqs) == IF seqs = << >> THEN << >>
                 ELSE Head(seqs) \o Flatten(Tail(seqs))

\* P2D(x_inches * inches2mm, y_inches * inches2mm) - origin_offset
Corner(r, x_inches, y_inches) ==
    P2DSub(P2D(InchesToMm(x_inches, r.inches2mm), InchesToMm(y_inches, r.inches2mm)),
           r.origin_offset)

----------------------------------------------------------------------------
(* Romi.battery_polygons_get                                               *)

LowerBatteryPatterns ==
    << <<"*", "-", "*", "*", "O", "*", "*", "-", "*">>,
       <<"*", "-", "*", "*", "*", "*", "*", "-", "*">>,
       <<"*", "-", "*", "*", "*", "*", "*", "-", "*">> >>

LowerBatteryYOffsets == <<0, -12300000, -12300000 - 12300000>>

UpperBatteryYOffsets == <<7000000, 7000000 + 12300000, 7000000 + 12300000 + 12300000>>

HoleDxPitch == 10000000         \* hole_dx_pitch = 10

BatteryReferenceHole(r) ==
    HoleLocate(r, <<"ZILCH:", "Battery", "Hole">>,
               -3913146, 3376610, -3822591, 3286051)

\* lines 237-249: for x_index in range(9), for each pattern row
LowerBatteryHoles(r) ==
    LET reference_hole == BatteryReferenceHole(r)
        column0_x == -4 * HoleDxPitch
        hole(x_index, y_index) ==
            CircleCopy(reference_hole,
                       <<"BATTERY:", "Lower", "Hole",
                         "(" \o Str(2 - x_index) \o ",", Str(y_index) \o ")">>,
                       P2D(column0_x + x_index * HoleDxPitch,
                           reference_hole.center.y + LowerBatteryYOffsets[y_index + 1]))
    IN  Flatten([xi \in 1..9 |->
            Flatten([yi \in 1..Len(LowerBatteryPatterns) |->
                IF LowerBatteryPatterns[yi][xi] # "-" THEN <<hole(xi - 1, yi - 1)>>
                                                      ELSE << >>])])

\* lines 253-263: for x_index in range(10), for y_index in range(3)
UpperBatteryHoles(r) ==
    LET reference_hole == BatteryReferenceHole(r)
        column0_x == -(9 * HoleDxPitch) \div 2
        hole(x_index, y_index) ==
            CircleCopy(reference_hole,
                       <<"BATTERY:", "Upper", "Hole",
                         "(" \o Str(2 - x_index) \o ",", Str(y_index) \o ")">>,
                       P2D(column0_x + x_index * HoleDxPitch,
                           reference_hole.center.y + UpperBatteryYOffsets[y_index + 1]))
    IN  Flatten([xi \in 1..10 |-> [yi \in 1..3 |-> hole(xi - 1, yi - 1)]])

\* lines 271-298
BatterySlotPolygons(r) ==
    << RectangleLocate(r, <<"BATTERY:", "Upper", "Left", "Battery", "Slot">>,
                       -5550937, 4252594, -4074563, 4473067),
       RectangleLocate(r, <<"BATTERY:", "Upper", "Right", "Battery", "Slot">>,
                       -3621799, 4252594, -2145425, 4473067),
       RectangleLocate(r, <<"BATTERY:", "Lower", "Left", "Battery", "Slot">>,
                       -5590311, 3705346, -4113925, 3925815),
       RectangleLocate(r, <<"BATTERY", "Lower", "Right", "Battery", "Slot">>,
                       -3661173, 3705346, -2184799, 3925815),
       RectangleLocate(r, <<"BATTERY:", "Upper", "Center", "Battery", "Slot">>,
                       -4586370, 3012429, -3109992, 3232913),
       RectangleLocate(r, <<"BATTERY:", "Lower", "Center", "Battery", "Slot">>,
                       -4625744, 2465193, -3149354, 2685665) >>

\* lines 304-336
BatteryCutoutPolygons(r) ==
    << RectangleLocate(r, <<"BATTERY:", "Upper", "Outer", "Left", "Cutout">>,
                       -5984008, 4748650, -5302909, 4965193),
       RectangleLocate(r, <<"BATTERY:", "Upper", "Inner", "Left", "Cutout">>,
                       -5235980, 4669913, -4861965, 4858886),
       RectangleLocate(r, <<"BATTERY:", "Upper", "Inner", "Right", "Cutout">>,
                       -2873772, 4669913, -2499756, 4858886),
       RectangleLocate(r, <<"BATTERY:", "Upper", "Outer", "Right", "Cutout">>,
                       -2432827, 4748650, -1751728, 4965193),
       RectangleLocate(r, <<"BATTERY:", "Lower", "Left", "Cutout">>,
                       -5572591, 1939594, -4655272, 2189594),
       RectangleLocate(r, <<"BATTERY:", "Lower", "Center", "Cutout">>,
                       -4340311, 2032122, -3395425, 2189594),
       RectangleLocate(r, <<"BATTERY:", "Lower", "Right", "Cutout">>,
                       -3080465, 1939594, -2163146, 2189594) >>

\* EncoderSlots named without a side marker
EncoderSlotsUnmarked(r) ==
    LET x1 == InchesToMm(-2031646, r.inches2mm) - r.origin_offset.x - 8850000
        dx == 2500000
        x2 == x1 - dx
        x3 == x2 - 1650000
        x4 == x3 - dx
        dy == InchesToMm(700000, r.inches2mm)
        outer_encoder_slot ==
            Square(<<"ENCODER:", "Outer", "Encoder", "Slot">>, dx, dy,
                   P2D(Half(x1 + x2), 0), 0, Half(dx), 3)
        inner_encoder_slot ==
            Square(<<"ENCODER:", "Inner", "Encoder", "Slot">>, dx, dy,
                   P2D(Half(x3 + x4), 0), 0, Half(dx), 3)
    IN  << outer_encoder_slot, YMirror(outer_encoder_slot, "RIGHT:", "LEFT:"),
           inner_encoder_slot, YMirror(inner_encoder_slot, "RIGHT:", "LEFT:") >>

\* EncoderSlots without the two mirrors
EncoderSlotsRightOnly(r) ==
    LET x1 == InchesToMm(-2031646, r.inches2mm) - r.origin_offset.x - 8850000
        dx == 2500000
        x2 == x1 - dx
        x3 == x2 - 1650000
        x4 == x3 - dx
        dy == InchesToMm(700000, r.inches2mm)
        outer_encoder_slot ==
            Square(<<"RIGHT:", "Outer", "Encoder", "Slot">>, dx, dy,
                   P2D(Half(x1 + x2), 0), 0, Half(dx), 3)
        inner_encoder_slot ==
            Square(<<"RIGHT:", "Inner", "Encoder", "Slot">>, dx, dy,
                   P2D(Half(x3 + x4), 0), 0, Half(dx), 3)
    IN  << outer_encoder_slot, inner_encoder_slot >>

\* lines 341-359: two encoder slots on the right, each followed by its mirror
EncoderSlots(r) ==
    LET x1 == InchesToMm(-2031646, r.inches2mm) - r.origin_offset.x - 8850000
        dx == 2500000
        x2 == x1 - dx
        x3 == x2 - 1650000
        x4 == x3 - dx
        dy == InchesToMm(700000, r.inches2mm)
        outer_encoder_slot ==
            Square(<<"RIGHT:", "Outer", "Encoder", "Slot">>, dx, dy,
                   P2D(Half(x1 + x2), 0), 0, Half(dx), 3)
        inner_encoder_slot ==
            Square(<<"RIGHT:", "Inner", "Encoder", "Slot">>, dx, dy,
                   P2D(Half(x3 + x4), 0), 0, Half(dx), 3)
    IN  << outer_encoder_slot, YMirror(outer_encoder_slot, "RIGHT:", "LEFT:"),
           inner_encoder_slot, YMirror(inner_encoder_slot, "RIGHT:", "LEFT:") >>

BatteryPolygonsGet(r) ==
    LowerBatteryHoles(r) \o UpperBatteryHoles(r) \o BatterySlotPolygons(r)
        \o BatteryCutoutPolygons(r) \o EncoderSlots(r)

----------------------------------------------------------------------------
(* Romi.upper_hex_polygons_get, Romi.lower_hex_polygons_table_get          *)

UpperPatternRows ==
    << <<"a", "-", "-", "-", "-", "-", "-">>,
       <<"-", "A", "-", "O", "-", "-", "-">>,
       <<"b", "-", "B", "-", "C", "-", "c">>,
       <<"-", "-", "-", "d", "-", "-", "-">> >>

\* "aO:bO:dO:cO".split(':')
UpperSlotPairs == << <<"a", "O">>, <<"b", "O">>, <<"d", "O">>, <<"c", "O">> >>

\* the call of hex_pattern_get for the upper pattern
UpperHexCall(r) ==
    LET upper_hex_hole == HoleLocate(r, <<"Upper", "Hex", "Hole">>,
                              -2749535, 5441567, -2629075, 5316441)
    IN  HexCall(UpperPatternRows, UpperSlotPairs, upper_hex_hole.center,
                upper_hex_hole.diameter, "UPPER")

\* the frame that call ends in
UpperHexRun(r) == HexRun(UpperHexCall(r), r.inches2mm)

UpperHexPolygonsGet(r) == UpperHexRun(r).simple_polygons

\* LowerPatternRows without the character 'Q'
LowerPatternRowsNoQ ==
    << <<"-", "-", "-", "A", "-", "B", "-", "C", "-", "D", "-">>,
       <<"-", "-", "-", "-", "E", "-", "O", "-", "F", "-", "G">>,
       <<"-", "-", "-", "a", "-", "H", "-", "I", "-", "J", "-">>,
       <<"-", "-", "-", "-", "K", "-", "L", "-", "M", "-", "-">>,
       <<"-", "-", "-", "N", "-", "-", "-", "-", "-", "-", "-">>,
       <<"R", "-", "S", "-", "-", "-", "-", "-", "-", "-", "-", "-">> >>

LowerPatternRows ==
    << <<"-", "-", "-", "A", "-", "B", "-", "C", "-", "D", "-">>,
       <<"-", "-", "-", "-", "E", "-", "O", "-", "F", "-", "G">>,
       <<"-", "-", "-", "a", "-", "H", "-", "I", "-", "J", "-">>,
       <<"-", "-", "-", "-", "K", "-", "L", "-", "M", "-", "-">>,
       <<"-", "-", "-", "N", "-", "Q", "-", "-", "-", "-", "-">>,
       <<"R", "-", "S", "-", "-", "-", "-", "-", "-", "-", "-", "-">> >>

\* "AO:OD:Aa:aO:JO:DJ:OL:aL:LJ:aN:NL:RN".split(':')
LowerSlotPairs ==
    << <<"A", "O">>, <<"O", "D">>, <<"A", "a">>, <<"a", "O">>, <<"J", "O">>,
       <<"D", "J">>, <<"O", "L">>, <<"a", "L">>, <<"L", "J">>, <<"a", "N">>,
       <<"N", "L">>, <<"R", "N">> >>

\* the call of hex_pattern_get for the lower pattern
LowerHexCall(r) ==
    LET lower_hex_hole == HoleLocate(r, <<"Lower", "Hex", "Hole">>,
                              -2454646, 1553776, -2329091, 1428650)
    IN  HexCall(LowerPatternRows, LowerSlotPairs, lower_hex_hole.center,
                lower_hex_hole.diameter, "LOWER")

\* the frame that call ends in
LowerHexRun(r) == HexRun(LowerHexCall(r), r.inches2mm)

\* (lower_hex_polygons, lower_holes_table)
LowerHexPolygonsTableGet(r) ==
    LET run == LowerHexRun(r) IN <<run.simple_polygons, run.locations>>

----------------------------------------------------------------------------
(* Romi.line_hole_polygons_get                                             *)

\* LineHolePolygonsGet without the test of line 554
LineHolePolygonsGetAll(r, lower_hex_table) ==
    LET small_hole == HoleLocate(r, <<"Small", "Hole">>,
                          -3289535, 256524, -3198980, 165984)
        s_center == lower_hex_table["S"]
        q_center == lower_hex_table["Q"]
        hole_vector == P2DSub(q_center, s_center)
        hole(vector_hole_index) ==
            Circle(<<"RIGHT:", "Vector", "Hole", Str(vector_hole_index)>>,
                   small_hole.diameter, 8,
                   P2DAdd(s_center,
                          P2DDiv(P2DMul(vector_hole_index - 1, hole_vector), 3)))
    IN  [i \in 1..9 |-> hole(i - 1)]

LineHolePolygonsGet(r, lower_hex_table) ==
    LET small_hole == HoleLocate(r, <<"Small", "Hole">>,
                          -3289535, 256524, -3198980, 165984)
        s_center == lower_hex_table["S"]
        q_center == lower_hex_table["Q"]
        hole_vector == P2DSub(q_center, s_center)
        hole(vector_hole_index) ==
            Circle(<<"RIGHT:", "Vector", "Hole", Str(vector_hole_index)>>,
                   small_hole.diameter, 8,
                   P2DAdd(s_center,
                          P2DDiv(P2DMul(vector_hole_index - 1, hole_vector), 3)))
    IN  Flatten([i \in 1..9 |-> IF (i - 1) % 3 # 1 THEN <<hole(i - 1)>> ELSE << >>])

----------------------------------------------------------------------------
(* Romi.lower_arc_holes_rectangles_get, Romi.upper_arc_holes_rectangles_get *)

LowerHolesCount == 12         \* lower_holes_count = 12

UpperHolesCount == 12         \* upper_holes_count = 12

\* the hole of one position of an arc, lines 648-653 and 875-880
ArcHole(name, index, diameter, radius, angle) ==
    Circle(Append(name, Str(index)), diameter, 8,
           P2D(MulScaled(radius, Cos(angle)), MulScaled(radius, Sin(angle))))

\* the rectangle of one position of an arc, lines 658-663 and 887-892
ArcRectangle(name, index, width, length, radius, angle) ==
    Square(Append(name, Str(index)), width, length,
           P2D(MulScaled(radius, Cos(angle)), MulScaled(radius, Sin(angle))),
           angle, 0, 3)

\* LowerArcHasHole with the bound of the rectangle loop
LowerArcHasHoleEverywhere(index) == index < LowerHolesCount + 3

\* the hole test of the lower arc: lower_hole_index < lower_holes_count + 1
LowerArcHasHole(index) == index < LowerHolesCount + 1

\* UpperArcHasHole skipping two indices only
UpperArcHasHoleSkipsTwo(index) == index \notin {2, 3}

\* the hole test of the upper arc: upper_hole_index not in (2, 3, 12, 13)
UpperArcHasHole(index) == index \notin {2, 3, 12, 13}

\* ArcIsLarge on every second index
ArcIsLargeEven(index) == index % 2 = 0

\* arc sizes alternate on the index modulo 3
ArcIsLarge(index) == index % 3 = 0

\* the measured holes that start and end the two arcs
LowerStartHole(r) ==
    HoleLocate(r, <<"Lower", "Start", "Hole">>,
               -1483063, 1348929, -1357508, 1223803)

LowerEndHole(r) ==
    HoleLocate(r, <<"Lower", "End", "Hole">>, -3144020, 125287, -3053465, 34732)

UpperStartHole(r) ==
    HoleLocate(r, <<"Upper", "Start", "Hole">>,
               -1483063, 4651469, -1357508, 4526346)

UpperEndHole(r) ==
    HoleLocate(r, <<"Upper", "End", "Hole">>,
               -3144020, 5840524, -3053465, 5749969)

LowerArcHolesRectanglesGet(r) ==
    LET lower_start == LowerStartHole(r)
        lower_arc_start_angle == Atan2(lower_start.center.y, lower_start.center.x)
        lower_end == LowerEndHole(r)
        small_hole_diameter == lower_end.diameter
        lower_arc_end_angle == Atan2(lower_end.center.y, lower_end.center.x)
        lower_hole_radius == Distance(Origin, lower_start.center)
        large_upper_left_corner == Corner(r, -1248201, 1259484)
        large_lower_left_corner == Corner(r, -1331370, 1136248)
        large_upper_right_corner == Corner(r, -1205772, 1230858)
        large_rectangle_length == Distance(large_upper_left_corner, large_lower_left_corner)
        rectangle_width == Distance(large_upper_left_corner, large_upper_right_corner)
        rectangle_center == P2DDiv(P2DAdd(large_upper_right_corner,
                                          large_lower_left_corner), 2)
        rectangle_radius == Distance(Origin, rectangle_center)
        small_upper_left_corner == Corner(r, -1368228, 1081638)
        small_lower_left_corner == Corner(r, -1431575, 987760)
        small_rectangle_length == Distance(small_upper_left_corner, small_lower_left_corner)
        angle(index) == lower_arc_start_angle +
                        AngleAt(lower_arc_end_angle - lower_arc_start_angle,
                                LowerHolesCount - 1, index)
        hole(index) ==
            ArcHole(<<"RIGHT:", "Lower", "hole">>, index,
                    IF ArcIsLarge(index) THEN lower_start.diameter
                                         ELSE small_hole_diameter,
                    lower_hole_radius, angle(index))
        rectangle(index) ==
            ArcRectangle(<<"RIGHT:", "Lower", "left", "Rectangle">>, index,
                         rectangle_width,
                         IF ArcIsLarge(index) THEN large_rectangle_length
                                              ELSE small_rectangle_length,
                         rectangle_radius, angle(index))
    IN  Flatten([i \in 1..(LowerHolesCount + 3) |->
            IF LowerArcHasHole(i - 1) THEN <<hole(i - 1), rectangle(i - 1)>>
                                      ELSE <<rectangle(i - 1)>>])

UpperArcHolesRectanglesGet(r) ==
    LET upper_start == UpperStartHole(r)
        upper_arc_start_angle == Atan2(upper_start.center.y, upper_start.center.x)
        upper_end == UpperEndHole(r)
        small_hole_diameter == upper_end.diameter
        upper_arc_end_angle == Atan2(upper_end.center.y, upper_end.center.x)
        upper_hole_radius == Distance(Origin, upper_start.center)
        large_upper_inner_corner == Corner(r, -1331370, 4739012)
        large_lower_inner_corner == Corner(r, -1248201, 4615776)
        large_lower_outer_corner == Corner(r, -1205772, 4644402)
        large_rectangle_length == Distance(large_upper_inner_corner, large_lower_inner_corner)
        rectangle_width == Distance(large_lower_inner_corner, large_lower_outer_corner)
        rectangle_center == P2DDiv(P2DAdd(large_upper_inner_corner,
                                          large_lower_outer_corner), 2)
        rectangle_radius == Distance(Origin, rectangle_center)
        small_upper_inner_corner == Corner(r, -1431575, 4887512)
        small_lower_inner_corner == Corner(r, -1368228, 4793638)
        small_rectangle_length == Distance(small_upper_inner_corner, small_lower_inner_corner)
        angle(index) == upper_arc_start_angle +
                        AngleAt(upper_arc_end_angle - upper_arc_start_angle,
                                UpperHolesCount - 1, index)
        hole(index) ==
            ArcHole(<<"RIGHT:", "Upper", "hole">>, index,
                    IF ArcIsLarge(index) THEN upper_start.diameter
                                         ELSE small_hole_diameter,
                    upper_hole_radius, angle(index))
        rectangle(index) ==
            ArcRectangle(<<"RIGHT:", "Upper", "Right", "Rectangle">>, index,
                         rectangle_width,
                         IF ArcIsLarge(index) THEN large_rectangle_length
                                              ELSE small_rectangle_length,
                         rectangle_radius, angle(index))
    IN  Flatten([i \in 1..(UpperHolesCount + 1) |->
            IF UpperArcHasHole(i - 1) THEN <<hole(i - 1), rectangle(i - 1)>>
                                      ELSE <<rectangle(i - 1)>>])

----------------------------------------------------------------------------
(* Romi.miscellaneous_holes_get, Romi.vertical_rectangles_get              *)

MiscellaneousHolesGet(r) ==
    << HoleLocate(r, <<"RIGHT:", "Misc", "Small", "Lower", "Left">>,
                  -3119047, 658110, -3041756, 748650),
       HoleLocate(r, <<"RIGHT:", "Misc", "Small", "Upper", "Left">>,
                  -3028492, 1642358, -3119047, 1732913),
       HoleLocate(r, <<"RIGHT:", "Misc", "Small", "Upper", "Right", "-30deg">>,
                  -1755228, 1642358, -1664673, 1732913),
       HoleLocate(r, <<"RIGHT:", "Misc", "Small", "Upper", "Right", "30deg">>,
                  -1755228, 1839205, -1664673, 1929760),
       HoleLocate(r, <<"RIGHT:", "Misc", "Small", "Upper", "Right", "90deg">>,
                  -1925717, 1937638, -1835161, 2028177),
       HoleLocate(r, <<"RIGHT:", "Misc", "Small", "Upper", "Right", "120deg">>,
                  -2096189, 1839205, -2005634, 1929760),
       HoleLocate(r, <<"RIGHT:", "Misc", "Large", "Upper", "Right">>,
                  -1844020, 2252594, -1718480, 2127469) >>

UpperRectangles(r) ==
    << RectangleLocate(r, <<"RIGHT:", "UPPER:", "Rectangle", "0">>,
                       -1511965, 3569984, -1460783, 3683232),
       RectangleLocate(r, <<"RIGHT:", "UPPER:", "Rectangle", "1">>,
                       -1511965, 3749122, -1460783, 3897803),
       RectangleLocate(r, <<"RIGHT:", "UPPER:", "Rectangle", "2">>,
                       -1511965, 3963677, -1460783, 4076929),
       RectangleLocate(r, <<"RIGHT:", "UPPER:", "Rectangle", "3">>,
                       -1511965, 4142815, -1460783, 4291496) >>

VerticalRectanglesGet(r) ==
    LET upper_rectangles == UpperRectangles(r)
        lower_rectangles == [i \in 1..Len(upper_rectangles) |->
                                XMirror(upper_rectangles[i], "UPPER:", "LOWER:")]
    IN  upper_rectangles \o lower_rectangles

----------------------------------------------------------------------------
(* Romi.base_scad_polygon_generate, one step per statement                 *)

\* the frame of a call that has not started
GenIdle ==
    [pc |-> "idle",
     base_outline_polygon |-> OutlineIdle.outline_polygon,
     battery_polygons |-> << >>, upper_hex_polygons |-> << >>,
     lower_hex_polygons |-> << >>, lower_hex_table |-> EmptyDict,
     line_hole_polygons |-> << >>, lower_arc_holes_rectangles |-> << >>,
     upper_arc_holes_rectangles |-> << >>, miscellaneous_holes |-> << >>,
     vertical_rectangles |-> << >>, mirrorable_polygons |-> << >>,
     mirrored_polygons |-> << >>, all_polygons |-> << >>,
     base_scad_polygon |-> Polygon(<< >>, << >>, FALSE)]

GenCall == [GenIdle EXCEPT !.pc = "outline"]

\* MirrorablePolygons without the extend of line_hole_polygons
MirrorablePolygonsNoLineHoles(f) ==
    f.upper_hex_polygons \o f.lower_hex_polygons
        \o f.lower_arc_holes_rectangles \o f.upper_arc_holes_rectangles
        \o f.miscellaneous_holes \o f.vertical_rectangles

\* MirrorablePolygons starting from the battery polygons
MirrorablePolygonsWithBattery(f) ==
    f.battery_polygons \o f.upper_hex_polygons \o f.lower_hex_polygons
        \o f.line_hole_polygons \o f.lower_arc_holes_rectangles
        \o f.upper_arc_holes_rectangles \o f.miscellaneous_holes
        \o f.vertical_rectangles

\* lines 181-188: the RIGHT groups, in the order they are extended
MirrorablePolygons(f) ==
    f.upper_hex_polygons \o f.lower_hex_polygons \o f.line_hole_polygons
        \o f.lower_arc_holes_rectangles \o f.upper_arc_holes_rectangles
        \o f.miscellaneous_holes \o f.vertical_rectangles

\* lines 191-192: the mirror of each mirrorable polygon, in the same order
MirroredPolygons(mirrorable_polygons) ==
    [i \in 1..Len(mirrorable_polygons) |->
        YMirror(mirrorable_polygons[i], "RIGHT:", "LEFT:")]

\* AllPolygons with the mirrored polygons ahead of the mirrorable ones
AllPolygonsMirrorFirst(f) ==
    <<f.base_outline_polygon>> \o
        (f.battery_polygons \o f.mirrored_polygons \o f.mirrorable_polygons)

\* lines 193-195: the outline first, then the internal polygons
AllPolygons(f) ==
    <<f.base_outline_polygon>> \o
        (f.battery_polygons \o f.mirrorable_polygons \o f.mirrored_polygons)

\* the three statements that call a stepwise method
GenCallees == {"outline", "upper_hex", "lower_hex"}

\* one statement; outline_frame and hex_frame are the finished frames of the
\* method the statement calls
GenStep(f, r, outline_frame, hex_frame) ==
    CASE f.pc = "outline" ->
           IF outline_frame.pc = "return"
           THEN [f EXCEPT !.base_outline_polygon = outline_frame.outline_polygon,
                          !.pc = "battery"]
           ELSE [f EXCEPT !.pc = "abort"]
      [] f.pc = "battery" ->
           [f EXCEPT !.battery_polygons = BatteryPolygonsGet(r), !.pc = "upper_hex"]
      [] f.pc = "upper_hex" ->
           IF hex_frame.pc = "return"
           THEN [f EXCEPT !.upper_hex_polygons = hex_frame.simple_polygons,
                          !.pc = "lower_hex"]
           ELSE [f EXCEPT !.pc = "abort"]
      [] f.pc = "lower_hex" ->
           IF hex_frame.pc = "return"
           THEN [f EXCEPT !.lower_hex_polygons = hex_frame.simple_polygons,
                          !.lower_hex_table = hex_frame.locations,
                          !.pc = "line_holes"]
           ELSE [f EXCEPT !.pc = "abort"]
      [] f.pc = "line_holes" ->
           IF {"S", "Q"} \subseteq DOMAIN f.lower_hex_table
           THEN [f EXCEPT !.line_hole_polygons =
                              LineHolePolygonsGet(r, f.lower_hex_table),
                          !.pc = "lower_arc"]
           ELSE [f EXCEPT !.pc = "abort"]
      [] f.pc = "lower_arc" ->
           [f EXCEPT !.lower_arc_holes_rectangles = LowerArcHolesRectanglesGet(r),
                     !.pc = "upper_arc"]
      [] f.pc = "upper_arc" ->
           [f EXCEPT !.upper_arc_holes_rectangles = UpperArcHolesRectanglesGet(r),
                     !.pc = "miscellaneous"]
      [] f.pc = "miscellaneous" ->
           [f EXCEPT !.miscellaneous_holes = MiscellaneousHolesGet(r),
                     !.pc = "vertical"]
      [] f.pc = "vertical" ->
           [f EXCEPT !.vertical_rectangles = VerticalRectanglesGet(r),
                     !.pc = "mirrorable"]
      [] f.pc = "mirrorable" ->
           [f EXCEPT !.mirrorable_polygons = MirrorablePolygons(f),
                     !.pc = "mirrored"]
      [] f.pc = "mirrored" ->
           [f EXCEPT !.mirrored_polygons = MirroredPolygons(f.mirrorable_polygons),
                     !.pc = "all"]
      [] f.pc = "all" ->
           [f EXCEPT !.all_polygons = AllPolygons(f), !.pc = "polygon"]
      [] f.pc = "polygon" ->
           [f EXCEPT !.base_scad_polygon =
                         Polygon(<<"Romi", "Base", "ScadPolygon">>,
                                 f.all_polygons, TRUE),
                     !.pc = "return"]
      [] OTHER -> f

GenDone(f) == f.pc \in {"return", "abort"}

\* the whole call, each called method run to its end
RECURSIVE GenRun(_, _)
GenRun(f, r) ==
    IF GenDone(f) THEN f
    ELSE GenRun(GenStep(f, r, BaseOutlinePolygonGet,
                        IF f.pc = "upper_hex" THEN UpperHexRun(r)
                                              ELSE LowerHexRun(r)), r)

BaseScadPolygonGenerate(r) == GenRun(GenCall, r).base_scad_polygon

----------------------------------------------------------------------------
(* The inputs of hex_pattern_get that the model explores                   *)

MaxCells == 4

MaxSlotPairs == 2

PatternCharacters == {"-", "O", "A", "b"}

\* every row of two characters among 'O' and a letter outside ASCII in its
\* upper case and in its lower case
AccentedPatternInputs == [1..1 -> [1..2 -> {"O", "É", "é"}]]

\* every grid of rows * columns <= MaxCells characters, and the accented rows
PatternInputs ==
    UNION {[1..rows -> [1..columns -> PatternCharacters]] :
               <<rows, columns>> \in {rc \in (1..MaxCells) \X (1..MaxCells) :
                                          rc[1] * rc[2] <= MaxCells}}
        \cup AccentedPatternInputs

\* every list of at most MaxSlotPairs of the pairs "AO" and "Ob"
SlotPairsInputs ==
    UNION {[1..n -> {<<"A", "O">>, <<"O", "b">>}] : n \in 0..MaxSlotPairs}

HexOriginInputs == {P2D(-16000000, 37000000), P2D(0, 0)}

HoleDiameterInputs == {3189000}

LabelInputs == {"TEST"}

\* the characters of the small patterns followed in binary64
MaxCells64 == 3

\* every grid of rows * columns <= MaxCells64 characters, and the two patterns
\* that base_scad_polygon_generate passes
Pattern64Inputs ==
    UNION {[1..rows -> [1..columns -> {"-", "O", "A"}]] :
               <<rows, columns>> \in {rc \in (1..MaxCells64) \X (1..MaxCells64) :
                                          rc[1] * rc[2] <= MaxCells64}}
        \cup {LowerPatternRows, UpperPatternRows}

\* hex_origin: (0.1, 0.1), (0.0, 63.99999999999999), (48.0, -0.1),
\* (-41.53853595969308, 79.56862552748521), and the centre of the
\* "Lower Hex Hole", (37.4938925, -36.73918230000001)
HexOrigin64Inputs ==
    {P2D(Float64(1, <<794, 792, 403, 759, 205, 7>>, -56),
         Float64(1, <<794, 792, 403, 759, 205, 7>>, -56)),
     P2D(Float64Zero, Float64(1, <<991, 740, 254, 199, 7, 9>>, -47)),
     P2D(Float64(1, <<744, 55, 441, 399, 755, 6>>, -47),
         Float64(-1, <<794, 792, 403, 759, 205, 7>>, -56)),
     P2D(Float64(-1, <<678, 924, 220, 29, 846, 5>>, -47),
         Float64(1, <<952, 311, 254, 144, 599, 5>>, -46)),
     P2D(Float64(1, <<670, 114, 259, 796, 276, 5>>, -47),
         Float64(-1, <<524, 130, 241, 580, 170, 5>>, -47))}

----------------------------------------------------------------------------
(* The inputs of hole_locate and rectangle_locate that the model explores  *)

\* corner abscissas and ordinates in micro-inches, as read from the .dxf
CornerXInputs == {-3913146, -3822591, -1483063, 0}

CornerYInputs == {3376610, 3286051, 1348929, 0}

\* the frame of a locator call that has not started
LocateIdle ==
    [pc |-> "idle", method |-> "none", x1 |-> 0, y1 |-> 0, x2 |-> 0, y2 |-> 0,
     result |-> [kind |-> "None"]]

\* the frame of a locator call that has returned
LocateReturn(method, x1, y1, x2, y2, result) ==
    [pc |-> "return", method |-> method, x1 |-> x1, y1 |-> y1, x2 |-> x2,
     y2 |-> y2, result |-> result]

----------------------------------------------------------------------------
(* The state machine: one Romi, its methods called one at a time.  A method *)
(* that another method calls runs in its own frame while the caller waits. *)

VARIABLES romi, outline, hex, gen, locate, hex64

vars == <<romi, outline, hex, gen, locate, hex64>>

Init ==
    /\ romi = RomiInit
    /\ outline = OutlineIdle
    /\ hex = HexIdle
    /\ gen = GenIdle
    /\ locate = LocateIdle
    /\ hex64 = Hex64Idle

\* no call is in progress and no result is held
Idle ==
    /\ outline.pc = "idle" /\ hex.pc = "idle" /\ gen.pc = "idle"
    /\ locate.pc = "idle" /\ hex64.pc = "idle"

BaseOutlinePolygonGetCall ==
    /\ Idle
    /\ outline' = OutlineCall
    /\ UNCHANGED <<romi, hex, gen, locate, hex64>>

BaseOutlinePolygonGetStep ==
    /\ outline.pc \notin {"idle", "return", "abort"}
    /\ outline' = OutlineStep(outline)
    /\ UNCHANGED <<romi, hex, gen, locate, hex64>>

HexPatternGetCall ==
    /\ Idle
    /\ \E pattern_rows \in PatternInputs, slot_pairs \in SlotPairsInputs,
          hex_origin \in HexOriginInputs,
          hole_diameter \in HoleDiameterInputs, label \in LabelInputs :
           hex' = HexCall(pattern_rows, slot_pairs, hex_origin, hole_diameter,
                          label)
    /\ UNCHANGED <<romi, outline, gen, locate, hex64>>

\* the search for the row that holds 'O'
HexPatternGetFind ==
    /\ hex.pc = "find_origin"
    /\ hex' = HexFindStep(hex)
    /\ UNCHANGED <<romi, outline, gen, locate, hex64>>

\* one pattern character of the two nested loops
HexPatternGetScan ==
    /\ hex.pc = "scan"
    /\ hex' = HexScanStep(hex)
    /\ UNCHANGED <<romi, outline, gen, locate, hex64>>

\* one slot pair of the slot loop
HexPatternGetSlot ==
    /\ hex.pc = "slots"
    /\ hex.slot_index < Len(hex.slot_pairs)
    /\ hex' = HexSlotStep(hex, romi.inches2mm)
    /\ UNCHANGED <<romi, outline, gen, locate, hex64>>

\* the slot loop is over
HexPatternGetReturn ==
    /\ hex.pc = "slots"
    /\ hex.slot_index >= Len(hex.slot_pairs)
    /\ hex' = HexReturnStep(hex)
    /\ UNCHANGED <<romi, outline, gen, locate, hex64>>

BaseScadPolygonGenerateCall ==
    /\ Idle
    /\ gen' = GenCall
    /\ UNCHANGED <<romi, outline, hex, locate, hex64>>

\* a statement that calls base_outline_polygon_get, upper_hex_polygons_get or
\* lower_hex_polygons_table_get enters the method
BaseScadPolygonGenerateEnter ==
    /\ gen.pc \in GenCallees
    /\ outline.pc = "idle" /\ hex.pc = "idle"
    /\ outline' = IF gen.pc = "outline" THEN OutlineCall ELSE outline
    /\ hex' = CASE gen.pc = "upper_hex" -> UpperHexCall(romi)
                 [] gen.pc = "lower_hex" -> LowerHexCall(romi)
                 [] OTHER -> hex
    /\ UNCHANGED <<romi, gen, locate, hex64>>

\* a statement completes, with the result of the method it called if any
BaseScadPolygonGenerateStep ==
    /\ gen.pc \notin {"idle", "return", "abort"}
    /\ gen.pc = "outline" => OutlineDone(outline)
    /\ gen.pc \in {"upper_hex", "lower_hex"} => HexDone(hex)
    /\ gen' = GenStep(gen, romi, outline, hex)
    /\ outline' = OutlineIdle
    /\ hex' = HexIdle
    /\ UNCHANGED <<romi, locate, hex64>>

\* HoleLocateCall storing the centre it computed as romi.origin_offset
HoleLocateCallRecalibrates ==
    /\ Idle
    /\ \E x1 \in CornerXInputs, y1 \in CornerYInputs,
          x2 \in CornerXInputs, y2 \in CornerYInputs :
           /\ locate' = LocateReturn("hole_locate", x1, y1, x2, y2,
                                     HoleLocate(romi, <<"Located", "Hole">>,
                                                x1, y1, x2, y2))
           /\ romi' = [romi EXCEPT !.origin_offset = locate'.result.center]
    /\ UNCHANGED <<outline, hex, gen, hex64>>

\* a call of hole_locate with corners read from the drawing
HoleLocateCall ==
    /\ Idle
    /\ \E x1 \in CornerXInputs, y1 \in CornerYInputs,
          x2 \in CornerXInputs, y2 \in CornerYInputs :
           locate' = LocateReturn("hole_locate", x1, y1, x2, y2,
                                  HoleLocate(romi, <<"Located", "Hole">>,
                                             x1, y1, x2, y2))
    /\ UNCHANGED <<romi, outline, hex, gen, hex64>>

\* a call of rectangle_locate with corners read from the drawing
RectangleLocateCall ==
    /\ Idle
    /\ \E x1 \in CornerXInputs, y1 \in CornerYInputs,
          x2 \in CornerXInputs, y2 \in CornerYInputs :
           locate' = LocateReturn("rectangle_locate", x1, y1, x2, y2,
                                  RectangleLocate(romi, <<"Located", "Rectangle">>,
                                                  x1, y1, x2, y2))
    /\ UNCHANGED <<romi, outline, hex, gen, hex64>>

\* the caller drops the value a call returned
\* a call of hex_pattern_get without slot pairs, followed in binary64
HexPatternGetCall64 ==
    /\ Idle
    /\ \E pattern_rows \in Pattern64Inputs, hex_origin \in HexOrigin64Inputs :
           hex64' = Hex64Call(pattern_rows, hex_origin)
    /\ UNCHANGED <<romi, outline, hex, gen, locate>>

\* the search for the row that holds 'O'
HexPatternGetFind64 ==
    /\ hex64.pc = "find_origin"
    /\ hex64' = Hex64FindStep(hex64)
    /\ UNCHANGED <<romi, outline, hex, gen, locate>>

\* one character of the pattern
HexPatternGetScan64 ==
    /\ hex64.pc = "scan"
    /\ hex64' = Hex64ScanStep(hex64)
    /\ UNCHANGED <<romi, outline, hex, gen, locate>>

\* the characters are over and there is no slot pair
HexPatternGetReturn64 ==
    /\ hex64.pc = "slots"
    /\ hex64' = Hex64ReturnStep(hex64)
    /\ UNCHANGED <<romi, outline, hex, gen, locate>>

Discard ==
    /\ gen.pc \in {"idle", "return"}
    /\ \/ outline.pc = "return" \/ hex.pc = "return" \/ gen.pc = "return"
       \/ locate.pc = "return" \/ hex64.pc = "return"
    /\ outline' = OutlineIdle
    /\ hex' = HexIdle
    /\ gen' = GenIdle
    /\ locate' = LocateIdle
    /\ hex64' = Hex64Idle
    /\ UNCHANGED romi

Next ==
    \/ BaseOutlinePolygonGetCall
    \/ BaseOutlinePolygonGetStep
    \/ HexPatternGetCall
    \/ HexPatternGetFind
    \/ HexPatternGetScan
    \/ HexPatternGetSlot
    \/ HexPatternGetReturn
    \/ BaseScadPolygonGenerateCall
    \/ BaseScadPolygonGenerateEnter
    \/ BaseScadPolygonGenerateStep
    \/ HoleLocateCall
    \/ RectangleLocateCall
    \/ HexPatternGetCall64
    \/ HexPatternGetFind64
    \/ HexPatternGetScan64
    \/ HexPatternGetReturn64
    \/ Discard

Spec == Init /\ [][Next]_vars

----------------------------------------------------------------------------
(* Properties of base_scad_polygon_generate                                *)

\* the RIGHT groups as the generators return them, in the order upper hex,
\* lower hex, line holes, lower arc, upper arc, miscellaneous, vertical
RightGroups(r) ==
    << UpperHexPolygonsGet(r),
       LowerHexPolygonsTableGet(r)[1],
       LineHolePolygonsGet(r, LowerHexPolygonsTableGet(r)[2]),
       LowerArcHolesRectanglesGet(r),
       UpperArcHolesRectanglesGet(r),
       MiscellaneousHolesGet(r),
       VerticalRectanglesGet(r) >>

\* the composite matches an outline, a battery list and a mirrorable list
CompositeIs(all, outline_polygon, battery, right) ==
    /\ Len(all) = 1 + Len(battery) + 2 * Len(right)
    /\ all[1] = outline_polygon
    /\ SubSeq(all, 2, 1 + Len(battery)) = battery
    /\ SubSeq(all, 2 + Len(battery), 1 + Len(battery) + Len(right)) = right
    /\ \A i \in 0..(Len(right) - 1) :
           all[1 + Len(battery) + Len(right) + i + 1] =
               YMirror(all[1 + Len(battery) + i + 1], "RIGHT:", "LEFT:")

\* C1: the composite returned by base_scad_polygon_generate is the outline,
\* then the battery features, then the RIGHT groups in the order upper hex,
\* lower hex, line holes, lower arc, upper arc, miscellaneous holes, vertical
\* rectangles, then the mirror of each of those features in the same order:
\* element 1+B+M+i is the mirror of element 1+B+i.
C1_CompositeOrder ==
    gen.pc = "return" =>
        CompositeIs(gen.base_scad_polygon.simple_polygons,
                    BaseOutlinePolygonGet.outline_polygon,
                    BatteryPolygonsGet(romi),
                    Flatten(RightGroups(romi)))

\* a full assembly has returned a locked composite with mirrored features
C1_Witness ==
    /\ gen.pc = "return"
    /\ gen.base_scad_polygon.locked
    /\ Len(gen.mirrored_polygons) > 0
    /\ Len(gen.base_scad_polygon.simple_polygons) >
           1 + Len(gen.battery_polygons) + Len(gen.mirrored_polygons)

\* C2: after a full assembly the number of composite elements other than
\* the outline is battery + 2 * (upper hex + lower hex + line holes + lower
\* arc + upper arc + misc + vertical), each term the length of the list its
\* generator returns, with misc exactly 7 and vertical exactly 8.
C2_CompositeCount ==
    gen.pc = "return" =>
        /\ Len(gen.base_scad_polygon.simple_polygons) - 1 =
               Len(BatteryPolygonsGet(romi))
                   + 2 * (Len(RightGroups(romi)[1]) + Len(RightGroups(romi)[2])
                          + Len(RightGroups(romi)[3]) + Len(RightGroups(romi)[4])
                          + Len(RightGroups(romi)[5]) + Len(RightGroups(romi)[6])
                          + Len(RightGroups(romi)[7]))
        /\ Len(MiscellaneousHolesGet(romi)) = 7
        /\ Len(VerticalRectanglesGet(romi)) = 8

\* a full assembly has returned and every generator contributed features
C2_Witness ==
    /\ gen.pc = "return"
    /\ Len(gen.base_scad_polygon.simple_polygons) > 1
    /\ Len(gen.line_hole_polygons) > 0
    /\ Len(gen.miscellaneous_holes) = 7
    /\ Len(gen.vertical_rectangles) = 8

----------------------------------------------------------------------------
(* Properties of base_outline_polygon_get                                  *)

\* C3: base_outline_polygon_get never locks or returns an outline whose
\* point count differs from 2*21+4 = 46: the count assertion has run before
\* the lock, and a count other than 46 met by the assertion aborts the call.
C3_CountBeforeLock ==
    /\ (outline.outline_polygon.locked \/ outline.pc = "return") =>
           /\ outline.count_asserted
           /\ Len(outline.outline_polygon.points) = 46
    /\ (outline.count_asserted /\ Len(outline.outline_polygon.points) # 46) =>
           outline.pc = "abort"

\* the outline has been returned locked, with its 46 points
C3_Witness ==
    /\ outline.pc = "return"
    /\ outline.outline_polygon.locked
    /\ outline.count_asserted
    /\ Len(outline.outline_polygon.points) = 46

\* the first and last point of the upper arc and of the lower arc
ArcEndpoints(points) ==
    {points[1], points[ArcCount], points[ArcCount + 3], points[2 * ArcCount + 2]}

\* C4 as stated: the outline that is returned has had every arc endpoint (the
\* first and last point of the upper arc and of the lower arc) compared with
\* the nominal radius by an explicit distance check.
C4_EveryArcEndpointChecked ==
    outline.pc = "return" =>
        ArcEndpoints(outline.outline_polygon.points) \subseteq outline.radius_checked

\* C4 as amended: the one explicit distance check, of tolerance 1e-5 mm, is
\* on the wheel-well corner, which becomes the first point of the upper arc;
\* the call aborts there exactly when the corner is off the nominal radius.
C4_CornerChecked ==
    outline.pc \notin {"idle", "start"} =>
        /\ outline.radius_checked = {outline.wheel_well_corner}
        /\ (outline.pc = "abort" /\ ~outline.count_asserted) <=>
               ~(Abs(Half(Diameter)
                       - Distance(Origin, outline.wheel_well_corner)) < RadiusTolerance)
        /\ Len(outline.outline_polygon.points) > 0 =>
               outline.outline_polygon.points[1] = outline.wheel_well_corner

\* the outline has been returned after the check of its wheel-well corner,
\* with arc endpoints that no check has named
C4_Witness ==
    /\ outline.pc = "return"
    /\ outline.radius_checked = {outline.wheel_well_corner}
    /\ outline.outline_polygon.points[1] \in outline.radius_checked
    /\ outline.outline_polygon.points[ArcCount] \notin outline.radius_checked

----------------------------------------------------------------------------
(* Properties of hex_pattern_get                                           *)

\* the (x_index, y_index) positions of a pattern and the character at one
PatternPositions(pattern_rows) ==
    UNION {{<<x, y>> : x \in 0..(Len(pattern_rows[y + 1]) - 1)} :
               y \in 0..(Len(pattern_rows) - 1)}

CharacterAt(pattern_rows, position) ==
    pattern_rows[position[2] + 1][position[1] + 1]

\* the positions that hold a given character
PositionsOf(pattern_rows, character) ==
    {position \in PatternPositions(pattern_rows) :
         CharacterAt(pattern_rows, position) = character}

\* the holes and the slots among the features of a frame, in order
HexHoles(f) == SelectSeq(f.simple_polygons, LAMBDA p : p.kind = "Circle")

HexSlots(f) == SelectSeq(f.simple_polygons, LAMBDA p : p.kind = "Square")

\* the pattern has been scanned to its end
Scanned(f) == f.pc \in {"slots", "return", "raise"}

\* the two anchors of the k-th slot pair
Anchor1(f, k) == f.locations[f.slot_pairs[k][1]]

Anchor2(f, k) == f.locations[f.slot_pairs[k][2]]

\* C5: for every run of hex_pattern_get that completes, the keys of the
\* returned table are exactly the characters other than '-' that appear in
\* the pattern rows.
C5_KeysAreNonBlankCharacters ==
    hex.pc = "return" =>
        DOMAIN hex.locations =
            {CharacterAt(hex.pattern_rows, position) :
                 position \in PatternPositions(hex.pattern_rows)} \ {"-"}

\* a run has returned a table for a pattern with a blank, an upper case and a
\* lower case character
C5_Witness ==
    /\ hex.pc = "return"
    /\ PositionsOf(hex.pattern_rows, "-") # {}
    /\ PositionsOf(hex.pattern_rows, "b") # {}
    /\ {"A", "b", "O"} \subseteq DOMAIN hex.locations

\* C6: a Circle hole is emitted for a pattern position if and only if the
\* character there is an upper case letter; lower case anchors and '-' give
\* no hole, and the number of holes is the number of upper case positions.
C6_HoleIffUpperCase ==
    Scanned(hex) =>
        /\ \A position \in PatternPositions(hex.pattern_rows) :
               (\E i \in 1..Len(HexHoles(hex)) :
                    HexHoles(hex)[i].name =
                        <<"RIGHT:", hex.label, "Hex", "Hole",
                          "(" \o Str(position[1]) \o ",",
                          Str(position[2]) \o ")">>)
               <=> CharacterAt(hex.pattern_rows, position) \in UpperCase
        /\ Len(HexHoles(hex)) =
               Cardinality({position \in PatternPositions(hex.pattern_rows) :
                                CharacterAt(hex.pattern_rows, position) \in UpperCase})

\* a run has scanned a pattern with upper case, lower case and blank positions
\* and has emitted one hole for each of its two upper case positions
C6_Witness ==
    /\ hex.pc = "return"
    /\ PositionsOf(hex.pattern_rows, "b") # {}
    /\ PositionsOf(hex.pattern_rows, "-") # {}
    /\ PositionsOf(hex.pattern_rows, "A") # {}
    /\ Len(HexHoles(hex)) = 2

\* C7: when no row of the pattern holds 'O', hex_pattern_get aborts before
\* any anchor is recorded or any feature emitted, and never returns.
C7_NoOriginAborts ==
    (hex.pc # "idle" /\ PositionsOf(hex.pattern_rows, "O") = {}) =>
        /\ hex.pc \in {"find_origin", "abort"}
        /\ DOMAIN hex.locations = {}
        /\ hex.simple_polygons = << >>

\* a run over a pattern with an upper case letter but no 'O' has aborted
C7_Witness ==
    /\ hex.pc = "abort"
    /\ PositionsOf(hex.pattern_rows, "O") = {}
    /\ PositionsOf(hex.pattern_rows, "A") # {}
    /\ hex.simple_polygons = << >>

\* C8 as stated: a pattern that hex_pattern_get processes to completion holds
\* exactly one 'O'.
C8_ExactlyOneOrigin ==
    hex.pc = "return" =>
        Cardinality(PositionsOf(hex.pattern_rows, "O")) = 1

\* C9 as stated: the length of every slot is the distance between the two
\* anchors its pair names.
C9_LengthIsAnchorDistance ==
    hex.pc = "return" =>
        \A k \in 1..Len(HexSlots(hex)) :
            HexSlots(hex)[k].dx = Distance(Anchor1(hex, k), Anchor2(hex, k))

\* C9 as amended: every slot has the one fixed length slot_dy - slot_dx of
\* the measured reference slot, whatever the distance between its anchors.
C9_LengthIsFixed ==
    Scanned(hex) =>
        \A k \in 1..Len(HexSlots(hex)) :
            HexSlots(hex)[k].dx =
                SlotDy(romi.inches2mm) - SlotDx(romi.inches2mm)

\* a run has returned two slots of one length whose anchors are at different
\* distances
C9_Witness ==
    /\ hex.pc = "return"
    /\ Len(HexSlots(hex)) = 2
    /\ Distance(Anchor1(hex, 1), Anchor2(hex, 1)) #
           Distance(Anchor1(hex, 2), Anchor2(hex, 2))
    /\ HexSlots(hex)[1].dx = HexSlots(hex)[2].dx

\* C10: every slot is centred at the midpoint of its two anchors, rotated by
\* atan2 of the first anchor minus the second, and has a corner radius of half
\* the one fixed slot width.
C10_SlotPlacement ==
    Scanned(hex) =>
        \A k \in 1..Len(HexSlots(hex)) :
            /\ HexSlots(hex)[k].center =
                   P2D(Half(Anchor1(hex, k).x + Anchor2(hex, k).x),
                       Half(Anchor1(hex, k).y + Anchor2(hex, k).y))
            /\ HexSlots(hex)[k].rotate =
                   Atan2(Anchor1(hex, k).y - Anchor2(hex, k).y,
                         Anchor1(hex, k).x - Anchor2(hex, k).x)
            /\ HexSlots(hex)[k].dy = SlotDx(romi.inches2mm)
            /\ HexSlots(hex)[k].corner_radius = Half(SlotDx(romi.inches2mm))

\* a run has returned a slot whose anchors differ in x and in y
C10_Witness ==
    /\ hex.pc = "return"
    /\ Len(HexSlots(hex)) >= 1
    /\ Anchor1(hex, 1).x # Anchor2(hex, 1).x
    /\ Anchor1(hex, 1).y # Anchor2(hex, 1).y
    /\ HexSlots(hex)[1].corner_radius > 0

----------------------------------------------------------------------------
(* Properties of mirroring                                                 *)

\* the statements of base_scad_polygon_generate after the mirrored list is built
AfterMirrored == {"all", "polygon", "return"}

\* the four encoder slot entries that end the battery list: outer, its mirror,
\* inner, its mirror
EncoderEntries(battery) == SubSeq(battery, Len(battery) - 3, Len(battery))

\* C13: a feature without a side marker is never mirrored.  Every feature
\* that is passed to y_mirror("RIGHT:", "LEFT:") during a generation pass has
\* a name with RIGHT:, and every feature that call produces has a name with
\* LEFT: and without RIGHT:.
C13_OnlyRightIsMirrored ==
    gen.pc \in AfterMirrored =>
        /\ Len(gen.mirrored_polygons) = Len(gen.mirrorable_polygons)
        /\ \A i \in 1..Len(gen.mirrorable_polygons) :
               /\ NameHas(gen.mirrorable_polygons[i].name, "RIGHT:")
               /\ NameHas(gen.mirrored_polygons[i].name, "LEFT:")
               /\ ~NameHas(gen.mirrored_polygons[i].name, "RIGHT:")
        /\ LET encoder == EncoderEntries(gen.battery_polygons)
           IN  \A k \in {1, 3} :
                   /\ NameHas(encoder[k].name, "RIGHT:")
                   /\ NameHas(encoder[k + 1].name, "LEFT:")
                   /\ ~NameHas(encoder[k + 1].name, "RIGHT:")

\* the pass held battery features without a marker, none of them mirrored, and
\* mirrored the lower vertical rectangles and the vector holes
C13_Witness ==
    /\ gen.pc = "return"
    /\ \E i \in 1..Len(gen.battery_polygons) :
           /\ ~NameHas(gen.battery_polygons[i].name, "RIGHT:")
           /\ ~NameHas(gen.battery_polygons[i].name, "LEFT:")
           /\ \A j \in 1..Len(gen.mirrorable_polygons) :
                  gen.mirrorable_polygons[j] # gen.battery_polygons[i]
    /\ \E j \in 1..Len(gen.mirrorable_polygons) :
           /\ NameHas(gen.mirrorable_polygons[j].name, "LOWER:")
           /\ NameHas(gen.mirrored_polygons[j].name, "LEFT:")
    /\ \E j \in 1..Len(gen.mirrorable_polygons) :
           /\ NameHas(gen.mirrorable_polygons[j].name, "Vector")
           /\ NameHas(gen.mirrored_polygons[j].name, "LEFT:")

----------------------------------------------------------------------------
(* Properties of the arc generators                                        *)

\* the statements of base_scad_polygon_generate after the lower arc list, and
\* after both arc lists, are built
AfterUpperArc ==
    {"miscellaneous", "vertical", "mirrorable", "mirrored", "all", "polygon",
     "return"}

AfterLowerArc == AfterUpperArc \cup {"upper_arc"}

\* the position index an arc feature carries as the last word of its name
ArcPosition(f) == CHOOSE i \in 0..20 : f.name[Len(f.name)] = Str(i)

\* the places of a list that hold a feature of one kind
ArcPlaces(features, kind) ==
    {k \in 1..Len(features) : features[k].kind = kind}

\* the position indices of the features of one kind
ArcPositions(features, kind) ==
    {ArcPosition(features[k]) : k \in ArcPlaces(features, kind)}

\* the kind and position index of each feature, in list order
ArcLayout(features) ==
    [k \in 1..Len(features) |-> <<features[k].kind, ArcPosition(features[k])>>]

\* the size that alternates: the diameter of a hole, the length of a rectangle
ArcSize(f) == IF f.kind = "Circle" THEN f.diameter ELSE f.dy

\* C14: with N = 12 upper_arc_holes_rectangles_get visits the 13 position
\* indices 0..12, emits a rectangle at each of them (13 rectangles) and a
\* hole at each of them outside {2, 3, 12, 13} (10 holes): 23 features.
C14_UpperArcCounts ==
    gen.pc \in AfterUpperArc =>
        LET features == gen.upper_arc_holes_rectangles
        IN  /\ Len(features) = 23
            /\ Cardinality(ArcPlaces(features, "Square")) = 13
            /\ ArcPositions(features, "Square") = 0..12
            /\ Cardinality(ArcPlaces(features, "Circle")) = 10
            /\ ArcPositions(features, "Circle") = (0..12) \ {2, 3, 12, 13}

\* the upper arc holds a rectangle at index 12 without a hole at index 12,
\* and a hole at index 4
C14_Witness ==
    /\ gen.pc = "return"
    /\ 12 \in ArcPositions(gen.upper_arc_holes_rectangles, "Square")
    /\ 12 \notin ArcPositions(gen.upper_arc_holes_rectangles, "Circle")
    /\ 4 \in ArcPositions(gen.upper_arc_holes_rectangles, "Circle")

\* C15: with N = 12 lower_arc_holes_rectangles_get emits a rectangle at each
\* of the N + 3 = 15 position indices 0..14 and a hole only at the first
\* N + 1 = 13 indices 0..12; the indices ascend, and at an index the hole,
\* when there is one, comes just before the rectangle.
C15_LowerArcLayout ==
    gen.pc \in AfterLowerArc =>
        ArcLayout(gen.lower_arc_holes_rectangles) =
            Flatten([i \in 1..15 |->
                IF i - 1 <= 12
                THEN << <<"Circle", i - 1>>, <<"Square", i - 1>> >>
                ELSE << <<"Square", i - 1>> >>])

\* the lower arc ends with the rectangles of indices 13 and 14, after the
\* hole and the rectangle of index 12
C15_Witness ==
    /\ gen.pc = "return"
    /\ Len(gen.lower_arc_holes_rectangles) = 28
    /\ SubSeq(ArcLayout(gen.lower_arc_holes_rectangles), 25, 28) =
           << <<"Circle", 12>>, <<"Square", 12>>, <<"Square", 13>>,
              <<"Square", 14>> >>

\* the features of one kind have the size of the index 0 feature where the
\* index is a multiple of 3 and the smaller size of the index 1 feature elsewhere
ArcSizesAlternate(features, kind) ==
    \E k0, k1 \in ArcPlaces(features, kind) :
        /\ ArcPosition(features[k0]) = 0
        /\ ArcPosition(features[k1]) = 1
        /\ ArcSize(features[k0]) > ArcSize(features[k1])
        /\ \A k \in ArcPlaces(features, kind) :
               ArcSize(features[k]) =
                   IF ArcPosition(features[k]) % 3 = 0
                   THEN ArcSize(features[k0]) ELSE ArcSize(features[k1])

\* C16: in both arc generators the hole diameter and the rectangle length at
\* position index i are the large size when i mod 3 = 0 and the small size
\* otherwise, so the hole and the rectangle of one index are of the same
\* size class.
C16_ArcSizeClass ==
    /\ gen.pc \in AfterLowerArc =>
           /\ ArcSizesAlternate(gen.lower_arc_holes_rectangles, "Circle")
           /\ ArcSizesAlternate(gen.lower_arc_holes_rectangles, "Square")
    /\ gen.pc \in AfterUpperArc =>
           /\ ArcSizesAlternate(gen.upper_arc_holes_rectangles, "Circle")
           /\ ArcSizesAlternate(gen.upper_arc_holes_rectangles, "Square")

\* the lower arc holds a large hole at index 3 next to a small hole at index
\* 4, and the upper arc a large rectangle at index 6 and a small one at index 7
C16_Witness ==
    /\ gen.pc = "return"
    /\ \E h3, h4 \in ArcPlaces(gen.lower_arc_holes_rectangles, "Circle") :
           /\ ArcPosition(gen.lower_arc_holes_rectangles[h3]) = 3
           /\ ArcPosition(gen.lower_arc_holes_rectangles[h4]) = 4
           /\ gen.lower_arc_holes_rectangles[h3].diameter >
                  gen.lower_arc_holes_rectangles[h4].diameter
    /\ \E r6, r7 \in ArcPlaces(gen.upper_arc_holes_rectangles, "Square") :
           /\ ArcPosition(gen.upper_arc_holes_rectangles[r6]) = 6
           /\ ArcPosition(gen.upper_arc_holes_rectangles[r7]) = 7
           /\ gen.upper_arc_holes_rectangles[r6].dy >
                  gen.upper_arc_holes_rectangles[r7].dy

----------------------------------------------------------------------------
(* Properties of the calibration frame                                     *)

\* C17 as stated: the vertical origin offset is the average of 2.967165 in
\* and 2.908110 in converted at 25.4 mm/in, and that value is 74.565 mm to
\* the three decimals given.
C17_OriginOffsetNear74565 ==
    /\ Abs(20 * romi.origin_offset.y - (2967165 + 2908110) * romi.inches2mm) <= 20
    /\ Abs(romi.origin_offset.y - 74565000) <= 500

\* C17: the vertical origin offset Romi.__init__ computes is the average of
\* the axle heights 2.967165 in and 2.908110 in converted at 25.4 mm/in,
\* which is 74.616 mm to three decimals (74.6159925 mm).
C17_OriginOffsetIsAverage ==
    /\ romi.inches2mm = 254
    /\ Abs(20 * romi.origin_offset.y - (2967165 + 2908110) * romi.inches2mm) <= 20
    /\ Abs(romi.origin_offset.y - 74616000) <= 500

\* the constructed Romi holds an offset between the two converted axle heights
C17_Witness ==
    /\ romi.inches2mm = 254
    /\ romi.origin_offset.y > InchesToMm(2908110, romi.inches2mm)
    /\ romi.origin_offset.y < InchesToMm(2967165, romi.inches2mm)
    /\ gen.pc = "idle"

\* C18: the calibration frame is written only by the constructor: no step of
\* any generation operation, in any order and any number of times, changes
\* origin_offset or inches2mm.
C18_CalibrationFrameFrozen ==
    [][/\ romi'.origin_offset = romi.origin_offset
       /\ romi'.inches2mm = romi.inches2mm]_vars

\* an assembly that used every generator has returned and the frame is the
\* one the constructor wrote
C18_Witness ==
    /\ gen.pc = "return"
    /\ Len(gen.miscellaneous_holes) > 0
    /\ Len(gen.vertical_rectangles) > 0
    /\ romi.origin_offset = RomiInit.origin_offset
    /\ romi.inches2mm = RomiInit.inches2mm

----------------------------------------------------------------------------
(* Properties of hole_locate and rectangle_locate                          *)

\* C20: for every corner pair (x1, y1), (x2, y2) in inches, hole_locate
\* returns a circle centred on the scaled midpoint minus origin_offset with
\* diameter (|x2 - x1| + |y2 - y1|) / 2 after scaling, and rectangle_locate a
\* rectangle with the same centre, width |x2 - x1| and height |y2 - y1| after
\* scaling; each result is the same with the two corners swapped.
C20_LocateContract ==
    locate.pc = "return" =>
        LET mx1 == InchesToMm(locate.x1, romi.inches2mm)
            my1 == InchesToMm(locate.y1, romi.inches2mm)
            mx2 == InchesToMm(locate.x2, romi.inches2mm)
            my2 == InchesToMm(locate.y2, romi.inches2mm)
            dx == Abs(mx2 - mx1)
            dy == Abs(my2 - my1)
            result == locate.result
        IN  /\ Abs(2 * (result.center.x + romi.origin_offset.x) - (mx1 + mx2)) <= 1
            /\ Abs(2 * (result.center.y + romi.origin_offset.y) - (my1 + my2)) <= 1
            /\ locate.method = "hole_locate" =>
                   /\ result.kind = "Circle"
                   /\ Abs(2 * result.diameter - (dx + dy)) <= 1
                   /\ result = HoleLocate(romi, result.name, locate.x2, locate.y2,
                                          locate.x1, locate.y1)
            /\ locate.method = "rectangle_locate" =>
                   /\ result.kind = "Square"
                   /\ result.dx = dx
                   /\ result.dy = dy
                   /\ result.rotate = 0
                   /\ result = RectangleLocate(romi, result.name, locate.x2,
                                               locate.y2, locate.x1, locate.y1)

\* hole_locate has returned for a pair whose second corner lies left of and
\* above the first
C20_Witness ==
    /\ locate.pc = "return"
    /\ locate.method = "hole_locate"
    /\ locate.x2 < locate.x1
    /\ locate.y2 > locate.y1
    /\ locate.result.diameter > 0

----------------------------------------------------------------------------
(* Properties of battery_polygons_get                                      *)

\* a name carries a side marker
SideMarked(name) == NameHas(name, "RIGHT:") \/ NameHas(name, "LEFT:")

\* C21 as stated: no feature of the list battery_polygons_get returns, which
\* the assembler places between the outline and the RIGHT groups, has a name
\* with RIGHT: or LEFT:.
C21_BatteryHasNoSideMarker ==
    \A i \in 1..Len(gen.battery_polygons) :
        ~SideMarked(gen.battery_polygons[i].name)

\* C21: of the list battery_polygons_get returns, every feature but the last
\* four has no side marker; the last four are the encoder slots, marked
\* RIGHT:, LEFT:, RIGHT:, LEFT: in that order.
C21_OnlyEncoderSlotsAreMarked ==
    Len(gen.battery_polygons) > 0 =>
        LET battery == gen.battery_polygons
            size == Len(battery)
        IN  /\ size > 4
            /\ \A i \in 1..(size - 4) : ~SideMarked(battery[i].name)
            /\ \A k \in {size - 3, size - 1} :
                   /\ NameHas(battery[k].name, "RIGHT:")
                   /\ NameHas(battery[k].name, "Encoder")
                   /\ NameHas(battery[k + 1].name, "LEFT:")
                   /\ NameHas(battery[k + 1].name, "Encoder")

\* the assembler holds the battery list: it begins with an unmarked hole and
\* ends with a LEFT: encoder slot
C21_Witness ==
    /\ gen.pc = "upper_hex"
    /\ Len(gen.battery_polygons) > 4
    /\ ~SideMarked(gen.battery_polygons[1].name)
    /\ NameHas(gen.battery_polygons[Len(gen.battery_polygons)].name, "LEFT:")

\* the holes of one group ("Lower" or "Upper") in a battery list
BatteryHoles(battery, group) ==
    {i \in 1..Len(battery) :
        /\ battery[i].kind = "Circle"
        /\ NameHas(battery[i].name, "BATTERY:")
        /\ NameHas(battery[i].name, group)
        /\ NameHas(battery[i].name, "Hole")}

\* the distinct abscissas and ordinates of the centres of a set of features
ColumnsOf(battery, places) == {battery[i].center.x : i \in places}

RowsOf(battery, places) == {battery[i].center.y : i \in places}

\* C25 as stated: battery_polygons_get emits the upper battery hole group as
\* 3 rows by 9 columns with every position populated (27 holes), and the
\* lower group as 3 rows by 9 columns with a hole exactly where the row
\* pattern character is not '-' (21 holes).
C25_BatteryHoleGrids ==
    Len(gen.battery_polygons) > 0 =>
        LET battery == gen.battery_polygons
            upper == BatteryHoles(battery, "Upper")
            lower == BatteryHoles(battery, "Lower")
        IN  /\ Cardinality(RowsOf(battery, upper)) = 3
            /\ Cardinality(ColumnsOf(battery, upper)) = 9
            /\ Cardinality(upper) = 27
            /\ Cardinality(RowsOf(battery, lower)) = 3
            /\ Cardinality(ColumnsOf(battery, lower)) <= 9
            /\ Cardinality(lower) = 21

----------------------------------------------------------------------------
(* Properties of the arc angles                                            *)

\* the polar angle of a point seen from the origin
PolarAngle(point) == Atan2(point.y, point.x)

\* the angular position of an arc feature: the rotation of a rectangle, the
\* polar angle of the centre of a hole
ArcAngle(f) == IF f.kind = "Square" THEN f.rotate ELSE PolarAngle(f.center)

\* an angle lies between two others, whichever of the two is the larger
AngleWithin(angle, first, last) ==
    (first <= angle /\ angle <= last) \/ (last <= angle /\ angle <= first)

\* the same, up to a slack at both ends
AngleAbout(angle, first, last, slack) ==
    \/ first - slack <= angle /\ angle <= last + slack
    \/ last - slack <= angle /\ angle <= first + slack

\* the features of one arc lie at start + i * (end - start) / (count - 1), the
\* holes on the radius of the start hole and the rectangles on one other radius;
\* differences of 2e-6 rad and 2 nm are rounding
ArcAnglesStepped(features, start_hole, end_hole, holes_count) ==
    LET start == PolarAngle(start_hole.center)
        end == PolarAngle(end_hole.center)
        hole_radius == Distance(Origin, start_hole.center)
        first_rectangle ==
            features[CHOOSE k \in ArcPlaces(features, "Square") : TRUE]
        rectangle_radius == Distance(Origin, first_rectangle.center)
    IN  /\ Abs(rectangle_radius - hole_radius) > 1000000
        /\ \A k \in 1..Len(features) :
               LET f == features[k]
                   i == ArcPosition(f)
               IN  /\ Abs((holes_count - 1) * (ArcAngle(f) - start)
                              - i * (end - start)) <= 200
                   /\ Abs(PolarAngle(f.center) - ArcAngle(f)) <= 20
                   /\ Abs(Distance(Origin, f.center) -
                              (IF f.kind = "Circle" THEN hole_radius
                                                    ELSE rectangle_radius)) <= 2
                   /\ (f.kind = "Square" /\ i = 0) => f.rotate = start
                   /\ (f.kind = "Square" /\ i = holes_count - 1) =>
                          Abs(f.rotate - end) <= 1
                   /\ i <= holes_count - 1 =>
                          AngleAbout(ArcAngle(f), start, end, 20)
                   /\ i > holes_count - 1 =>
                          ~AngleWithin(ArcAngle(f), start, end)

\* the features of one arc take holes_count angular positions, all of them
\* between the start angle and the end angle
ArcWithinEnds(features, start_hole, end_hole, holes_count) ==
    /\ Cardinality(ArcPositions(features, "Square")
                       \cup ArcPositions(features, "Circle")) = holes_count
    /\ \A k \in 1..Len(features) :
           AngleAbout(ArcAngle(features[k]), PolarAngle(start_hole.center),
                      PolarAngle(end_hole.center), 20)

\* C23 as stated: both arc generators subdivide [start_angle, end_angle] into
\* N - 1 equal steps and produce N angular positions, every emitted position
\* lying within [start_angle, end_angle].
C23_ArcsWithinEndAngles ==
    /\ gen.pc \in AfterLowerArc =>
           ArcWithinEnds(gen.lower_arc_holes_rectangles, LowerStartHole(romi),
                         LowerEndHole(romi), LowerHolesCount)
    /\ gen.pc \in AfterUpperArc =>
           ArcWithinEnds(gen.upper_arc_holes_rectangles, UpperStartHole(romi),
                         UpperEndHole(romi), UpperHolesCount)

\* C23: both arc generators step by (end_angle - start_angle) / (N - 1):
\* position i is at start_angle + i * (end_angle - start_angle) / (N - 1),
\* index 0 at the start angle and index N - 1 at the end angle; the positions
\* with a higher index (N for the upper arc, N to N + 2 for the lower arc) lie
\* beyond the end angle.  The hole and the rectangle of one index share the
\* angle, on two different radii.
C23_ArcAngles ==
    /\ gen.pc \in AfterLowerArc =>
           ArcAnglesStepped(gen.lower_arc_holes_rectangles, LowerStartHole(romi),
                            LowerEndHole(romi), LowerHolesCount)
    /\ gen.pc \in AfterUpperArc =>
           ArcAnglesStepped(gen.upper_arc_holes_rectangles, UpperStartHole(romi),
                            UpperEndHole(romi), UpperHolesCount)

\* the lower arc holds the rectangle of index 11 at the end angle and the
\* rectangle of index 14 beyond it
C23_Witness ==
    /\ gen.pc = "return"
    /\ \E k11, k14 \in ArcPlaces(gen.lower_arc_holes_rectangles, "Square") :
           LET f11 == gen.lower_arc_holes_rectangles[k11]
               f14 == gen.lower_arc_holes_rectangles[k14]
               start == PolarAngle(LowerStartHole(romi).center)
               end == PolarAngle(LowerEndHole(romi).center)
           IN  /\ ArcPosition(f11) = 11
               /\ ArcPosition(f14) = 14
               /\ Abs(f11.rotate - end) <= 1
               /\ ~AngleWithin(f14.rotate, start, end)

----------------------------------------------------------------------------
(* Properties of line_hole_polygons_get                                    *)

AfterLineHoles == AfterLowerArc \cup {"lower_arc"}

\* two points are the same up to 2 nm of rounding in each coordinate
SamePoint(p, q) == Abs(p.x - q.x) <= 2 /\ Abs(p.y - q.y) <= 2

\* a point is the centre of a hole of the lower hex grid
OnLowerHexGrid(point) ==
    \E k \in 1..Len(gen.lower_hex_polygons) :
        /\ gen.lower_hex_polygons[k].kind = "Circle"
        /\ SamePoint(gen.lower_hex_polygons[k].center, point)

\* the point S + (i - 1) * (Q - S) / 3, in nanometres
LinePoint(i) ==
    LET s == gen.lower_hex_table["S"]
        q == gen.lower_hex_table["Q"]
    IN  P2D(s.x + ((i - 1) * (q.x - s.x)) \div 3,
            s.y + ((i - 1) * (q.y - s.y)) \div 3)

\* C24: line_hole_polygons_get emits exactly the 6 holes with index i in 0..8
\* and i mod 3 # 1, centred at S + (i - 1) * (Q - S) / 3 for the anchors 'S'
\* and 'Q' of the lower hex table; the skipped indices 1, 4 and 7 are exactly
\* the positions that coincide with a hole of the lower hex grid, so no emitted
\* line hole has the centre of a lower hex hole.
C24_LineHolesAvoidHexGrid ==
    gen.pc \in AfterLineHoles =>
        /\ Len(gen.line_hole_polygons) = 6
        /\ {ArcPosition(gen.line_hole_polygons[k]) :
               k \in 1..Len(gen.line_hole_polygons)} = {0, 2, 3, 5, 6, 8}
        /\ \A k \in 1..Len(gen.line_hole_polygons) :
               LET f == gen.line_hole_polygons[k]
               IN  /\ f.kind = "Circle"
                   /\ SamePoint(f.center, LinePoint(ArcPosition(f)))
                   /\ ~OnLowerHexGrid(f.center)
        /\ \A i \in 0..8 : OnLowerHexGrid(LinePoint(i)) <=> i % 3 = 1

\* the six line holes are there, the skipped position 4 is the anchor 'Q' and
\* the skipped position 7 is a hole of the grid
C24_Witness ==
    /\ gen.pc = "return"
    /\ Len(gen.line_hole_polygons) = 6
    /\ SamePoint(LinePoint(4), gen.lower_hex_table["Q"])
    /\ OnLowerHexGrid(LinePoint(7))
    /\ ~OnLowerHexGrid(gen.line_hole_polygons[2].center)

----------------------------------------------------------------------------
(* Properties of the assembled composite polygon                           *)

\* the places of the composite polygon whose feature carries a side marker
MarkedPlaces(marker) ==
    {k \in 1..Len(gen.base_scad_polygon.simple_polygons) :
        NameHas(gen.base_scad_polygon.simple_polygons[k].name, marker)}

\* the places of the composite polygon that hold the reflection, renamed from
\* one marker to the other, of the feature at place k
ReflectionPlaces(k, from, to) ==
    LET features == gen.base_scad_polygon.simple_polygons
        image == YMirror(features[k], from, to)
    IN  {j \in MarkedPlaces(to) : features[j] = image}

\* C26: in the assembled composite polygon every RIGHT-marked feature has
\* exactly one LEFT-marked feature that is its reflection and every LEFT-marked
\* feature is the reflection of exactly one RIGHT-marked feature, so there are
\* as many RIGHT as LEFT features; this includes the encoder slots mirrored
\* inside battery_polygons_get, which the assembler does not mirror again.
C26_RightLeftPairing ==
    gen.pc = "return" =>
        /\ \A k \in MarkedPlaces("RIGHT:") :
               Cardinality(ReflectionPlaces(k, "RIGHT:", "LEFT:")) = 1
        /\ \A j \in MarkedPlaces("LEFT:") :
               Cardinality(ReflectionPlaces(j, "LEFT:", "RIGHT:")) = 1
        /\ Cardinality(MarkedPlaces("RIGHT:")) = Cardinality(MarkedPlaces("LEFT:"))
        /\ MarkedPlaces("RIGHT:") \cap MarkedPlaces("LEFT:") = {}

\* the composite polygon holds 112 RIGHT features, among them the outer encoder
\* slot, whose one reflection is a LEFT feature of the battery list
C26_Witness ==
    /\ gen.pc = "return"
    /\ Cardinality(MarkedPlaces("RIGHT:")) = 112
    /\ \E k \in MarkedPlaces("RIGHT:") :
           /\ gen.base_scad_polygon.simple_polygons[k] =
                  EncoderEntries(gen.battery_polygons)[1]
           /\ \E j \in ReflectionPlaces(k, "RIGHT:", "LEFT:") :
                  gen.base_scad_polygon.simple_polygons[j] =
                      EncoderEntries(gen.battery_polygons)[2]

\* the display names of the composite polygon, in list order
CompositeNames ==
    [k \in 1..Len(gen.base_scad_polygon.simple_polygons) |->
        gen.base_scad_polygon.simple_polygons[k].name]

\* C27: the feature names of the assembled composite polygon are pairwise
\* distinct: no two features (battery, hex holes and slots of both patterns,
\* line holes, arc holes and rectangles, miscellaneous holes, vertical
\* rectangles, and their mirrors) share a display name.
C27_NamesAreDistinct ==
    gen.pc = "return" =>
        \A j, k \in 1..Len(CompositeNames) :
            CompositeNames[j] = CompositeNames[k] => j = k

\* the composite polygon holds two holes of column 3 of the lower hex pattern
\* whose names differ in the row index only
C27_Witness ==
    /\ gen.pc = "return"
    /\ Len(CompositeNames) > 200
    /\ \E j, k \in 1..Len(CompositeNames) :
           /\ CompositeNames[j] =
                  <<"RIGHT:", "LOWER", "Hex", "Hole", "(3,", "0)">>
           /\ CompositeNames[k] =
                  <<"RIGHT:", "LOWER", "Hex", "Hole", "(3,", "4)">>

----------------------------------------------------------------------------
(* Properties of the anchor lookups of a generation pass                   *)

\* the cells of a pattern that hold a non-blank character
PatternCells(pattern_rows) ==
    {cell \in (1..Len(pattern_rows)) \X (1..12) :
        /\ cell[2] <= Len(pattern_rows[cell[1]])
        /\ pattern_rows[cell[1]][cell[2]] # "-"}

\* every non-blank character of a pattern is used once
PatternIsInjective(pattern_rows) ==
    \A c, d \in PatternCells(pattern_rows) :
        pattern_rows[c[1]][c[2]] = pattern_rows[d[1]][d[2]] => c = d

\* hex_pattern_get is running for the generation pass
HexForGenerate == gen.pc \in {"upper_hex", "lower_hex"} /\ hex.pc # "idle"

\* C28: no anchor lookup fails during a full generation pass: both letters of
\* every slot-pair code configured for the upper and lower hex patterns, and
\* the labels 'S' and 'Q' used by line_hole_polygons_get, are keys of the
\* AnchorTable they are looked up in, and each configured pattern uses every
\* non-blank character at most once, so that no anchor is overwritten.
C28_NoAnchorLookupFails ==
    /\ gen.pc # "abort"
    /\ HexForGenerate =>
           /\ hex.pc \notin {"raise", "abort"}
           /\ PatternIsInjective(hex.pattern_rows)
           /\ hex.pc = "scan" =>
                  LET pattern_character ==
                          hex.pattern_rows[hex.y_index + 1][hex.x_index + 1]
                  IN  pattern_character \notin DOMAIN hex.locations
           /\ hex.pc \in {"slots", "return"} =>
                  /\ Cardinality(DOMAIN hex.locations) =
                         Cardinality(PatternCells(hex.pattern_rows))
                  /\ \A k \in 1..Len(hex.slot_pairs) :
                         /\ hex.slot_pairs[k][1] \in DOMAIN hex.locations
                         /\ hex.slot_pairs[k][2] \in DOMAIN hex.locations
    /\ gen.pc = "line_holes" => {"S", "Q"} \subseteq DOMAIN gen.lower_hex_table
    /\ gen.pc \in AfterLineHoles => Len(gen.line_hole_polygons) > 0

\* the lower hex call of a generation pass returns with its twelve slots made
\* and 'S' and 'Q' in its table
C28_Witness ==
    /\ gen.pc = "lower_hex"
    /\ hex.pc = "return"
    /\ hex.slot_index = 12
    /\ {"S", "Q", "R", "N"} \subseteq DOMAIN hex.locations

----------------------------------------------------------------------------
(* Properties of the anchors of hex_pattern_get                            *)

\* the cells that hold a given character
CellsOf(pattern_rows, character) ==
    {cell \in PatternCells(pattern_rows) :
        pattern_rows[cell[1]][cell[2]] = character}

\* the cell of the first 'O' met scanning the rows from the top
FirstOrigin(pattern_rows) ==
    CHOOSE cell \in CellsOf(pattern_rows, "O") :
        \A other \in CellsOf(pattern_rows, "O") :
            \/ cell[1] < other[1]
            \/ cell[1] = other[1] /\ cell[2] <= other[2]

\* in whole nanometres, the anchor of each character used once is
\* hex_origin + ((c - cO) * column_pitch, -(r - rO) * row_pitch) with
\* row_pitch = 7.5 mm and column_pitch = row_pitch / sqrt(3) = 4.330127 mm
AnchorsFollowPitch(f) ==
    (Scanned(f) /\ CellsOf(f.pattern_rows, "O") # {}) =>
        /\ HexDyPitch = 7500000
        /\ HalfHexDxPitch \in 4330126..4330128
        /\ LET origin == FirstOrigin(f.pattern_rows)
           IN  \A cell \in PatternCells(f.pattern_rows) :
                   LET character == f.pattern_rows[cell[1]][cell[2]]
                   IN  Cardinality(CellsOf(f.pattern_rows, character)) = 1 =>
                           f.locations[character] =
                               P2D(f.hex_origin.x +
                                       (cell[2] - origin[2]) * HalfHexDxPitch,
                                   f.hex_origin.y -
                                       (cell[1] - origin[1]) * HexDyPitch)

\* the exponents of the numbers that are not 0
Float64Exps(numbers) == {x.exp : x \in {n \in numbers : n.man # WideOf(0)}}

SetMax(S) == CHOOSE a \in S : \A b \in S : b <= a

SetMin(S) == CHOOSE a \in S : \A b \in S : a <= b

RECURSIVE WideShiftLeft(_, _)
WideShiftLeft(w, d) ==
    IF d = 0 THEN w ELSE WideShiftLeft(WideAdd(w, w), d - 1)

\* the value of x as a signed count of 2^low, low at most the exponent of x
Float64Units(x, low) ==
    IF x.man = WideOf(0) THEN WideOf(0)
    ELSE WideTimes(x.sign, WideShiftLeft(x.man, x.exp - low))

\* |anchor - (origin + steps * pitch)| <= units * 2^high in exact arithmetic,
\* all numbers counted in 2^low
WithinUnitsAt(anchor, origin, steps, pitch, units, high, low) ==
    LET error == WideSub(Float64Units(anchor, low),
                         WideAdd(Float64Units(origin, low),
                                 WideTimes(steps, Float64Units(pitch, low))))
        bound == WideShiftLeft(WideOf(units), high - low)
    IN  WideLeq(error, bound) /\ WideLeq(WideTimes(-1, error), bound)

\* anchor is origin + steps * pitch to within so many units in the last place
\* of the largest of the numbers met computing it; when all of them are 0 the
\* anchor is 0
WithinUnits(anchor, origin, steps, pitch, units, met) ==
    IF Float64Exps(met) = {} THEN anchor = Float64Zero
    ELSE WithinUnitsAt(anchor, origin, steps, pitch, units,
                       SetMax(Float64Exps(met)),
                       SetMin(Float64Exps(met \cup {pitch})))

\* the X coordinate of the anchor of a cell of a returned call is
\* hex_origin.x + (c - cO) * half_hex_dx_pitch to within so many units
AnchorXWithin(f, cell, origin, units) ==
    WithinUnits(f.locations[f.pattern_rows[cell[1]][cell[2]]].x,
                f.hex_origin.x, cell[2] - origin[2], HalfHexDxPitch64, units,
                {f.hex_origin.x, f.upper_left_origin.x,
                 Float64Times(origin[2] - 1, HalfHexDxPitch64),
                 Float64Times(cell[2] - 1, HalfHexDxPitch64),
                 f.locations[f.pattern_rows[cell[1]][cell[2]]].x})

\* the Y coordinate of the anchor of a cell of a returned call is
\* hex_origin.y - (r - rO) * hex_dy_pitch to within so many units
AnchorYWithin(f, cell, origin, units) ==
    WithinUnits(f.locations[f.pattern_rows[cell[1]][cell[2]]].y,
                f.hex_origin.y, origin[1] - cell[1], HexDyPitch64, units,
                {f.hex_origin.y, f.upper_left_origin.y,
                 Float64Times(origin[1] - 1, HexDyPitch64),
                 Float64Times(cell[1] - 1, HexDyPitch64),
                 f.locations[f.pattern_rows[cell[1]][cell[2]]].y})

\* the cells of the characters that a pattern uses once
CellsUsedOnce(pattern_rows) ==
    {cell \in PatternCells(pattern_rows) :
        Cardinality(CellsOf(pattern_rows,
                            pattern_rows[cell[1]][cell[2]])) = 1}

\* C22 as stated: the anchor recorded for the character at column c of row r
\* is hex_origin + ((c - cO) * column_pitch, -(r - rO) * row_pitch), and the
\* anchor stored under 'O' is exactly hex_origin whenever the pattern has a
\* single 'O'.
C22_OriginAnchorIsExact ==
    /\ AnchorsFollowPitch(hex)
    /\ (hex64.pc = "return" /\
            Cardinality(CellsOf(hex64.pattern_rows, "O")) = 1) =>
           hex64.locations["O"] = hex64.hex_origin

\* C22: the anchor recorded for the character at column c of row r is
\* hex_origin + ((c - cO) * column_pitch, -(r - rO) * row_pitch) up to the
\* rounding of the binary64 operations that compute it: to the nanometre it is
\* that point; in binary64 each coordinate is within two units in the last
\* place of the largest number met computing it (the coordinate of
\* hex_origin, offset * pitch, the coordinate of upper_left_origin,
\* index * pitch, the anchor's coordinate).  The anchor stored under a single
\* 'O' is within one such unit of hex_origin, and is exactly hex_origin when
\* 'O' is in row 0 and column 0.
C22_AnchorsFollowPitch ==
    /\ AnchorsFollowPitch(hex)
    /\ hex64.pc = "return" =>
           /\ \A cell \in CellsUsedOnce(hex64.pattern_rows) :
                  /\ AnchorXWithin(hex64, cell,
                                   FirstOrigin(hex64.pattern_rows), 2)
                  /\ AnchorYWithin(hex64, cell,
                                   FirstOrigin(hex64.pattern_rows), 2)
           /\ \A cell \in CellsUsedOnce(hex64.pattern_rows) \cap
                           CellsOf(hex64.pattern_rows, "O") :
                  /\ AnchorXWithin(hex64, cell, cell, 1)
                  /\ AnchorYWithin(hex64, cell, cell, 1)
                  /\ cell = <<1, 1>> =>
                         hex64.locations["O"] = hex64.hex_origin

\* hex_origin is (0.1, 0.1), 'O' is the one character of row 1 and the anchor
\* stored under 'O' is (0.1, 0.09999999999999964)
C22_Witness ==
    /\ hex64.pc = "return"
    /\ hex64.pattern_rows = << <<"-">>, <<"O">> >>
    /\ hex64.hex_origin.y = Float64(1, <<794, 792, 403, 759, 205, 7>>, -56)
    /\ hex64.locations["O"] =
           P2D(Float64(1, <<794, 792, 403, 759, 205, 7>>, -56),
               Float64(1, <<768, 792, 403, 759, 205, 7>>, -56))

====
